---- MODULE Spec2Model ----
(***************************************************************************)
(* A model of Lavapy's node pool, websocket layer and playback queue.      *)
(*                                                                         *)
(* Python's asyncio runs one coroutine at a time and switches only at an   *)
(* await that really suspends, so every action below is the code between   *)
(* two suspension points of one coroutine (or one whole synchronous call). *)
(* The Lavalink server, the REST endpoint and the application calling the  *)
(* library are the environment: their choices are the \E of Next.          *)
(*                                                                         *)
(* The module holds several specifications over the same variables:        *)
(*   Spec       - NodePool.createNode / Node.connect / Node.disconnect and *)
(*                the websocket connect task of every node;                *)
(*   SpecSelect - the selection algorithms applied to a drawn registry;    *)
(*   SpecWs     - one node's websocket: connect task, listener task and    *)
(*                the per-frame decode tasks, with the event loop's        *)
(*                fairness;                                                *)
(*   SpecQueue  - one player's queue and Player.play;                      *)
(*   SpecPlayer - one player's play, pause and resume commands and the     *)
(*                track-end events of its node;                            *)
(*   SpecCommands - one player's play, volume, filter and destroy          *)
(*                commands;                                                *)
(*   SpecPosition - one player's position under the clock and the          *)
(*                playerUpdate frames of its node;                         *)
(*   SpecSearch - the searches made through one node;                      *)
(*   SpecBackoff - one ExponentialBackoff and its delay calls;             *)
(*   SpecTrackEnd - one player's play and repeat calls and the track-end   *)
(*                events the server answers them with;                     *)
(*   SpecPool   - Spec with the peer closing sockets and the selections    *)
(*                by player count;                                         *)
(*   SpecSessions - one player connecting to, leaving and being            *)
(*                destroyed on its node.                                   *)
(***************************************************************************)
EXTENDS Integers, Sequences, FiniteSets, TLC

VARIABLES
    nodes,      \* NodePool._nodes: <<[identifier, node]>> in dict insertion order
    node,       \* the Node objects, by object number
    ws,         \* the Websocket object of each Node object
    creating,   \* Node objects whose createNode call is suspended in _initialiseExtensions
    ret,        \* outcome of the API call that produced this state (NoCall otherwise)
    inbox,      \* frames the server sent that the listener has not received yet
    sent,       \* number of frames the server has sent so far
    tasks,      \* the processListener tasks, in creation order
    dispatched, \* what client.dispatch has been called with, in call order
    outbox,     \* the commands handed to send_json of an open socket, in call order
    now,        \* the wall clock, in seconds
    http,       \* the loadtracks request of a search and the server's answer to it
    backoff,    \* an ExponentialBackoff of the application and the delay it gave last
    player      \* the Player objects (with their Queue), by object number

vars == <<nodes, node, ws, creating, ret, inbox, sent, tasks, dispatched, outbox, now, http,
          backoff, player>>

wsVars == <<inbox, sent, tasks, dispatched, outbox, now, http, backoff>>

(***************************************************************************)
(* Bounds of the model                                                     *)
(***************************************************************************)
\* Node objects constructed during one run
MaxNodeObjs == 2
\* frames the server sends during one run (SpecWs)
MaxFrames == 2
\* length of a queue's track list (SpecQueue)
MaxQueue == 3
\* how far below -1 the queue cursor is followed (SpecQueue)
MaxUnder == 2
\* Player objects constructed during one run
MaxPlayers == 1

\* commands the model follows the players through
MaxCommands == 3

\* seconds the clock is followed for
MaxTime == 3

\* tracks in one answer of the server to a search
MaxResults == 3

\* the largest base and the largest maxRetries of an ExponentialBackoff
MaxBase == 3
MaxMaxRetries == 3

\* the values of random(), in [0, 1), are the multiples of 1/Resolution
Resolution == 8

NodeObjs == 1..MaxNodeObjs
Players == 1..MaxPlayers
NodeIds == {"a", "b"}
Regions == {"eu", "us"}

(***************************************************************************)
(* Objects                                                                 *)
(***************************************************************************)
\* Websocket.__init__: no connection, no listener, connect() scheduled as a task.
\* retries is the ExponentialBackoff of the listener; attempts, listeners and
\* sleeps count the ws_connect calls, the listener tasks created and the backoff
\* sleeps started since the socket was last seen open.
NewWebsocket ==
    [connection |-> "None", listener |-> "None", connectTask |-> "connecting",
     retries |-> 0, attempts |-> 1, listeners |-> 0, sleeps |-> 0]

NoWebsocket ==
    [connection |-> "None", listener |-> "None", connectTask |-> "none",
     retries |-> 0, attempts |-> 0, listeners |-> 0, sleeps |-> 0]

NoStats == [present |-> FALSE, playingPlayers |-> 0]

\* Node.__init__; accessToken is the bearer token of the node's SpotifyClient
\* (None until _getBearerToken has run), websocket counts the Websocket objects constructed for the
\* node, 0 being None.
NewNode(identifier, region, spotifyClient) ==
    [made |-> TRUE, identifier |-> identifier, region |-> region,
     spotifyClient |-> spotifyClient, accessToken |-> FALSE, players |-> <<>>,
     stats |-> NoStats, websocket |-> 0]

NoNode ==
    [made |-> FALSE, identifier |-> "", region |-> "", spotifyClient |-> FALSE,
     accessToken |-> FALSE, players |-> <<>>, stats |-> NoStats, websocket |-> 0]

\* Player.__init__ and Queue.__init__, for a player that NodePool.balanced()
\* gave node o. track is the current Track (0 for None), -1 stands for None in
\* lastUpdateTime and lastPosition, tracks and currentTrack are the Queue, and
\* call is the Player.play call of this player that is suspended, if any.
Idle == [pc |-> "idle", track |-> 0, volume |-> 0]

\* The Python values Player._paused takes: the bool it starts as and the dict
\* _togglePause assigns; pause is "True" or "False", the str() of the flag.
PyBool(pause) == [type |-> "bool", pause |-> pause]

PyDict(pause) == [type |-> "dict", pause |-> pause]

\* bool(value): a dict that is not empty is true
Truthy(value) == value.type = "dict" \/ value.pause = "True"

\* the names of the filter classes followed, the keys of Player.filters
FilterNames == {"equalizer", "karaoke"}

\* Player.filters as a function of the name: the filter object held under the
\* name ("Custom" built by the application, "Flat" from Equalizer.flat(),
\* "Default" from the class called without arguments) or Absent for no key
Absent == "Absent"

NoFilters == [name \in FilterNames |-> Absent]

NewPlayer(o) ==
    [made |-> TRUE, node |-> o, track |-> 0, volume |-> 100, connected |-> FALSE,
     lastUpdateTime |-> -1, lastPosition |-> -1, repeat |-> FALSE,
     paused |-> PyBool("False"),
     tracks |-> <<>>, currentTrack |-> -1, filters |-> NoFilters, call |-> Idle]

NoPlayer ==
    [made |-> FALSE, node |-> 0, track |-> 0, volume |-> 100, connected |-> FALSE,
     lastUpdateTime |-> -1, lastPosition |-> -1, repeat |-> FALSE,
     paused |-> PyBool("False"),
     tracks |-> <<>>, currentTrack |-> -1, filters |-> NoFilters, call |-> Idle]

\* value is the object a call returned or was about: a Node or a Track, 0 for none
Ret(op, arg, error, o) == [op |-> op, arg |-> arg, error |-> error, value |-> o]

\* a call that was made with arg and is suspended at an await
Suspended(op, arg) == [op |-> op, arg |-> arg, error |-> "suspended", value |-> 0]

NoCall == Ret("", "", "", 0)

\* What a search gives back: None, a Track, a list of Tracks, a MultiTrack or
\* a PartialResource, with the tracks in the order the server gave them.
Found(kind, tracks) == [kind |-> kind, tracks |-> tracks]

NotFound == Found("None", <<>>)

NoAnswer == [status |-> 0, loadType |-> "", tracks |-> <<>>]

NoRequest == [pc |-> "idle", returnFirst |-> FALSE, answer |-> NoAnswer, found |-> NotFound]

\* ExponentialBackoff(base, maxRetries); delay is the last value delay() gave,
\* in units of 1/Resolution
NewBackoff(base, max) == [base |-> base, maxRetries |-> max, retries |-> 0, delay |-> 0]

(***************************************************************************)
(* NodePool registry                                                       *)
(***************************************************************************)
Range(s) == {s[i] : i \in 1..Len(s)}

Identifiers == {e.identifier : e \in Range(nodes)}

\* cls._nodes.values()
Values == [i \in 1..Len(nodes) |-> nodes[i].node]

\* cls._nodes[identifier]; 0 when the key is absent (KeyError)
Lookup(identifier) ==
    IF identifier \in Identifiers
    THEN (CHOOSE e \in Range(nodes) : e.identifier = identifier).node
    ELSE 0

\* del cls._nodes[identifier]
Without(identifier) == SelectSeq(nodes, LAMBDA e : e.identifier # identifier)

\* cls._nodes[identifier] = o: a new key goes last, an existing key keeps its place
Assigned(identifier, o) ==
    IF identifier \in Identifiers
    THEN [i \in 1..Len(nodes) |->
            IF nodes[i].identifier = identifier
            THEN [identifier |-> identifier, node |-> o] ELSE nodes[i]]
    ELSE Append(nodes, [identifier |-> identifier, node |-> o])

FreeNodeObjs == {o \in NodeObjs : ~node[o].made}

FirstFree == CHOOSE o \in FreeNodeObjs : \A q \in FreeNodeObjs : o <= q

Registered(o) == \E i \in 1..Len(nodes) : nodes[i].node = o

\* Websocket.connected
Connected(o) == ws[o].connection = "open"

(***************************************************************************)
(* Node.connect: a Websocket is constructed only when the node has none    *)
(***************************************************************************)
NodeConnectRaises(n) == n.websocket # 0

NodeAfterConnect_Replacing(n) == [n EXCEPT !.websocket = n.websocket + 1]

NodeAfterConnect_Skipped(n) == n

NodeAfterConnect(n) ==
    IF n.websocket = 0 THEN [n EXCEPT !.websocket = 1] ELSE n

\* the Websocket of a node after Node.connect took it from `before` to `after`
WebsocketAfterConnect(before, after, w) ==
    IF after.websocket # before.websocket THEN NewWebsocket ELSE w

\* The application calls node.connect() on a node it holds.
NodeConnect(o) ==
    /\ node[o].made
    /\ node' = [node EXCEPT ![o] = NodeAfterConnect(node[o])]
    /\ ws' = [ws EXCEPT ![o] = WebsocketAfterConnect(node[o], node'[o], ws[o])]
    /\ ret' = Ret("Node.connect", node[o].identifier,
                  IF NodeConnectRaises(node[o]) THEN "WebsocketAlreadyExists" ELSE "", o)
    /\ UNCHANGED <<nodes, creating, player>>
    /\ UNCHANGED wsVars

(***************************************************************************)
(* NodePool.createNode                                                     *)
(***************************************************************************)
NodeOccupied_Never(identifier) == FALSE

\* `identifier in cls._nodes`
NodeOccupied(identifier) == identifier \in Identifiers

\* Lines 99-108 up to the suspension in _initialiseExtensions. An identifier of
\* None is drawn at random by the code, so it is one more choice of the \E.
\* Without a SpotifyClient _initialiseExtensions does not suspend and the call
\* returns in the same step.
CreateNode(identifier, region, spotifyClient) ==
    /\ IF NodeOccupied(identifier)
       THEN /\ ret' = Ret("createNode", identifier, "NodeOccupied", 0)
            /\ UNCHANGED <<nodes, node, ws, creating>>
       ELSE /\ FreeNodeObjs # {}
            /\ LET o == FirstFree
                   made == NewNode(identifier, region, spotifyClient)
               IN  /\ nodes' = Append(Without(identifier),
                                      [identifier |-> identifier, node |-> o])
                   /\ node' = [node EXCEPT ![o] = NodeAfterConnect(made)]
                   /\ ws' = [ws EXCEPT ![o] =
                                WebsocketAfterConnect(made, node'[o], ws[o])]
                   /\ creating' = IF spotifyClient THEN creating \cup {o} ELSE creating
                   /\ ret' = IF spotifyClient THEN NoCall
                             ELSE Ret("createNode", identifier, "", o)
    /\ UNCHANGED player
    /\ UNCHANGED wsVars

\* SpotifyClient._getBearerToken answered with status 200: createNode returns.
CreateNodeInitialised(o) ==
    /\ o \in creating
    /\ creating' = creating \ {o}
    /\ node' = [node EXCEPT ![o].accessToken = TRUE]
    /\ ret' = Ret("createNode", node[o].identifier, "", o)
    /\ UNCHANGED <<nodes, ws, player>>
    /\ UNCHANGED wsVars

\* SpotifyClient._getBearerToken raises SpotifyAuthException out of createNode.
CreateNodeInitFailed(o) ==
    /\ o \in creating
    /\ creating' = creating \ {o}
    /\ ret' = Ret("createNode", node[o].identifier, "SpotifyAuthException", o)
    /\ UNCHANGED <<nodes, node, ws, player>>
    /\ UNCHANGED wsVars

(***************************************************************************)
(* Websocket.connect, run as a task by Websocket.__init__                  *)
(***************************************************************************)
WebsocketOpen(o) == [event |-> "websocket_open", frame |-> 0, node |-> o]

\* ws_connect returned: the listener task is created and websocket_open dispatched.
ConnectedWebsocket(w) ==
    [w EXCEPT !.connection = "open", !.listener = "receiving",
              !.listeners = w.listeners + 1, !.connectTask = "done", !.sleeps = 0]

WsConnectOk(o) ==
    /\ ws[o].connectTask = "connecting"
    /\ ws' = [ws EXCEPT ![o] = ConnectedWebsocket(ws[o])]
    /\ dispatched' = Append(dispatched, WebsocketOpen(o))
    /\ ret' = NoCall
    /\ UNCHANGED <<nodes, node, creating, player, inbox, sent, tasks, outbox, now, http, backoff>>

FailedWebsocket_StartsListener(w, how) ==
    [w EXCEPT !.connectTask = how, !.listener = "receiving", !.listeners = w.listeners + 1]

\* ws_connect raised; how is "authFailed" (WSServerHandshakeError, status 401)
\* or "failed" (anything else). Both are logged and connect() returns.
FailedWebsocket(w, how) == [w EXCEPT !.connectTask = how]

WsConnectFail(o, how) ==
    /\ ws[o].connectTask = "connecting"
    /\ ws' = [ws EXCEPT ![o] = FailedWebsocket(ws[o], how)]
    /\ ret' = NoCall
    /\ UNCHANGED <<nodes, node, creating, player>>
    /\ UNCHANGED wsVars

(***************************************************************************)
(* Node.disconnect                                                         *)
(***************************************************************************)
\* Websocket.disconnect: listener.cancel() raises AttributeError while the
\* listener is None; otherwise the listener is cancelled and the socket closed.
WebsocketDisconnectRaises(w) == w.listener = "None"

DisconnectedWebsocket(w) ==
    [w EXCEPT !.listener = IF w.listener \in {"receiving", "sleeping"}
                           THEN "cancelled" ELSE w.listener,
              !.connection = "closed"]

\* Every player of the node is disconnected; then, inside one try block, the
\* websocket is disconnected and the identifier deleted from the registry. Any
\* exception of the block is logged and swallowed.
NodeDisconnect(o) ==
    /\ node[o].made
    /\ o \notin creating
    /\ player' = [p \in DOMAIN player |->
                    IF p \in Range(node[o].players)
                    THEN [player[p] EXCEPT !.connected = FALSE] ELSE player[p]]
    /\ IF WebsocketDisconnectRaises(ws[o])
       THEN UNCHANGED <<ws, nodes>>
       ELSE /\ ws' = [ws EXCEPT ![o] = DisconnectedWebsocket(ws[o])]
            /\ nodes' = Without(node[o].identifier)
    /\ ret' = Ret("Node.disconnect", node[o].identifier, "", o)
    /\ UNCHANGED <<node, creating>>
    /\ UNCHANGED wsVars

\* Websocket.disconnect called on the websocket of node o.
WebsocketDisconnect(o) ==
    /\ node[o].made
    /\ node[o].websocket # 0
    /\ IF WebsocketDisconnectRaises(ws[o])
       THEN /\ ret' = Ret("Websocket.disconnect", node[o].identifier, "AttributeError", o)
            /\ ws' = ws
       ELSE /\ ret' = Ret("Websocket.disconnect", node[o].identifier, "", o)
            /\ ws' = [ws EXCEPT ![o] = DisconnectedWebsocket(ws[o])]
    /\ UNCHANGED <<nodes, node, creating, player>>
    /\ UNCHANGED wsVars

(***************************************************************************)
(* Spec: the node pool and the websocket connect task of every node        *)
(***************************************************************************)
Init ==
    /\ nodes = <<>>
    /\ node = [o \in NodeObjs |-> NoNode]
    /\ ws = [o \in NodeObjs |-> NoWebsocket]
    /\ creating = {}
    /\ ret = NoCall
    /\ inbox = <<>>
    /\ sent = 0
    /\ outbox = <<>>
    /\ now = 0
    /\ http = NoRequest
    /\ backoff = NewBackoff(1, 20)
    /\ tasks = <<>>
    /\ dispatched = <<>>
    /\ player = [p \in Players |-> NoPlayer]

Next ==
    \/ \E identifier \in NodeIds, spotifyClient \in BOOLEAN :
          CreateNode(identifier, "eu", spotifyClient)
    \/ \E o \in NodeObjs : CreateNodeInitialised(o)
    \/ \E o \in NodeObjs : CreateNodeInitFailed(o)
    \/ \E o \in NodeObjs : NodeConnect(o)
    \/ \E o \in NodeObjs : WsConnectOk(o)
    \/ \E o \in NodeObjs, how \in {"authFailed", "failed"} : WsConnectFail(o, how)
    \/ \E o \in NodeObjs : NodeDisconnect(o)

Spec == Init /\ [][Next]_vars

(***************************************************************************)
(* Claims about the node pool (checked under Spec)                         *)
(***************************************************************************)
\* C7: a Node never has more than one Websocket: a Node.connect call on a node
\* that already has a websocket fails with WebsocketAlreadyExists and leaves
\* the node's websocket, and everything it holds, as it was.
C7_OneWebsocketPerNode ==
    [][\A o \in NodeObjs :
          /\ node'[o].websocket <= 1
          /\ (ret'.op = "Node.connect" /\ ret'.value = o /\ node[o].websocket # 0)
                => /\ ret'.error = "WebsocketAlreadyExists"
                   /\ node'[o].websocket = node[o].websocket
                   /\ ws'[o] = ws[o]]_vars

\* A second Node.connect has failed on a node whose socket is open, and is still open.
C7_Witness ==
    /\ ret.op = "Node.connect"
    /\ ret.error = "WebsocketAlreadyExists"
    /\ node[ret.value].websocket = 1
    /\ Connected(ret.value)

CreateNodeReturned == ret.op = "createNode" /\ ret.error = ""

\* C8 as stated: when createNode returns, the new node's websocket is connected
\* and its extension initialisation has run.
C8_ConnectedOnReturn ==
    CreateNodeReturned =>
        /\ Connected(ret.value)
        /\ node[ret.value].spotifyClient => node[ret.value].accessToken

\* C8 as amended: when createNode returns, the new node has its one Websocket and
\* that websocket's connect attempt has been started (it may still be pending, or
\* have succeeded or failed), and the extension initialisation has run.
C8_ConnectStartedOnReturn ==
    CreateNodeReturned =>
        /\ node[ret.value].websocket = 1
        /\ ws[ret.value].connectTask \in {"connecting", "done", "authFailed", "failed"}
        /\ ws[ret.value].attempts = 1
        /\ node[ret.value].spotifyClient => node[ret.value].accessToken

\* createNode has returned a node with a SpotifyClient whose token was fetched
\* while the websocket is still connecting.
C8_Witness ==
    /\ CreateNodeReturned
    /\ node[ret.value].spotifyClient
    /\ node[ret.value].accessToken
    /\ ws[ret.value].connectTask = "connecting"
    /\ ~Connected(ret.value)

\* C9: a createNode call whose identifier is already registered fails with
\* NodeOccupied and changes neither the registry nor any Node or Websocket.
C9_NodeOccupiedKeepsRegistry ==
    [][(ret'.op = "createNode" /\ ret'.arg \in Identifiers /\ creating' = creating)
          => /\ ret'.error = "NodeOccupied"
             /\ nodes' = nodes
             /\ node' = node
             /\ ws' = ws]_vars

\* createNode has failed with NodeOccupied and the identifier is still registered
\* to a node made before the call.
C9_Witness ==
    /\ ret.op = "createNode"
    /\ ret.error = "NodeOccupied"
    /\ ret.arg \in Identifiers
    /\ node[Lookup(ret.arg)].made
    /\ FreeNodeObjs # {}

(***************************************************************************)
(* The selection algorithms of NodePool                                    *)
(***************************************************************************)
\* sorted(seq, key=...): Python's sort is stable, so an element goes after
\* every element whose key is not greater than its own.
InsertByKey_Unstable(sorted, x, key) ==
    LET k == Cardinality({i \in 1..Len(sorted) : key[sorted[i]] < key[x]})
    IN  SubSeq(sorted, 1, k) \o <<x>> \o SubSeq(sorted, k + 1, Len(sorted))

InsertByKey(sorted, x, key) ==
    LET k == Cardinality({i \in 1..Len(sorted) : key[sorted[i]] <= key[x]})
    IN  SubSeq(sorted, 1, k) \o <<x>> \o SubSeq(sorted, k + 1, Len(sorted))

RECURSIVE SortedByKey(_, _)
SortedByKey(seq, key) ==
    IF seq = <<>> THEN <<>>
    ELSE InsertByKey(SortedByKey(SubSeq(seq, 1, Len(seq) - 1), key), seq[Len(seq)], key)

Penalty_NoStatsWorst(n) == IF ~n.stats.present THEN 100 ELSE n.stats.playingPlayers

\* Node.penalty. The stats frames of this model report systemLoad 0 and no
\* frameStats, which leaves Penalty.total = playingPlayers.
Penalty(n) == IF ~n.stats.present THEN 0 ELSE n.stats.playingPlayers

Selected(o) == [error |-> "", node |-> o]

Failed(error) == [error |-> error, node |-> 0]

\* `return result[0]` inside `try ... except KeyError`: an empty list raises
\* IndexError, which the handler does not catch.
FirstOf(result) == IF result = <<>> THEN Failed("IndexError") ELSE Selected(result[1])

NoNodes_Never == FALSE

\* `not cls._nodes`
NoNodes == nodes = <<>>

minPlayers ==
    IF NoNodes THEN Failed("NoNodesConnected")
    ELSE FirstOf(SortedByKey(Values, [o \in NodeObjs |-> Len(node[o].players)]))

balanced ==
    IF NoNodes THEN Failed("NoNodesConnected")
    ELSE FirstOf(SortedByKey(Values, [o \in NodeObjs |-> Penalty(node[o])]))

identifier(id) ==
    IF NoNodes THEN Failed("NoNodesConnected")
    ELSE IF Lookup(id) = 0 THEN Failed("InvalidNodeSearch")
    ELSE Selected(Lookup(id))

closestNode(region) ==
    IF NoNodes THEN Failed("NoNodesConnected")
    ELSE FirstOf(SelectSeq(Values, LAMBDA o : node[o].region = region))

\* spotify: whether the extension is a subclass of SpotifyBase
extension(spotify) ==
    IF NoNodes THEN Failed("NoNodesConnected")
    ELSE IF spotify
         THEN FirstOf(SelectSeq(Values, LAMBDA o : node[o].spotifyClient))
         ELSE FirstOf(Values)

\* The application calls one selection algorithm.
Select(op, arg, result) ==
    /\ ret' = Ret(op, arg, result.error, result.node)
    /\ UNCHANGED <<nodes, node, ws, creating, player>>
    /\ UNCHANGED wsVars

(***************************************************************************)
(* SpecSelect: the selection algorithms on a drawn registry                *)
(***************************************************************************)
IdNames == <<"a", "b", "c", "d", "e">>

Counts == {0, 1}

\* the players attached to the i-th node of a drawn registry
PlayersOf(i, count) == [j \in 1..count |-> 10 * i + j]

DrawnStats == {NoStats} \cup {[present |-> TRUE, playingPlayers |-> n] : n \in Counts}

\* A registry as createNode, Player.connect and the stats frames leave it: the
\* i-th node created is object i and still registered, with any region, with or
\* without a SpotifyClient, any number of players and any latest stats.
InitSelect ==
    /\ \E k \in 0..MaxNodeObjs :
       \E region \in [1..k -> Regions], spotifyClient \in [1..k -> BOOLEAN],
          count \in [1..k -> Counts], stats \in [1..k -> DrawnStats] :
          /\ nodes = [i \in 1..k |-> [identifier |-> IdNames[i], node |-> i]]
          /\ node = [o \in NodeObjs |->
                       IF o <= k
                       THEN [NewNode(IdNames[o], region[o], spotifyClient[o])
                               EXCEPT !.accessToken = spotifyClient[o],
                                      !.players = PlayersOf(o, count[o]),
                                      !.stats = stats[o],
                                      !.websocket = 1]
                       ELSE NoNode]
          /\ ws = [o \in NodeObjs |->
                     IF o <= k THEN ConnectedWebsocket(NewWebsocket) ELSE NoWebsocket]
          /\ dispatched = [o \in 1..k |-> WebsocketOpen(o)]
          /\ player = [p \in UNION {Range(PlayersOf(o, count[o])) : o \in 1..k} |->
                         [NewPlayer(p \div 10) EXCEPT !.connected = TRUE]]
    /\ creating = {}
    /\ ret = NoCall
    /\ inbox = <<>>
    /\ sent = 0
    /\ outbox = <<>>
    /\ now = 0
    /\ http = NoRequest
    /\ backoff = NewBackoff(1, 20)
    /\ tasks = <<>>

SelectIds == {IdNames[i] : i \in 1..MaxNodeObjs}

NextSelect ==
    \/ Select("minPlayers", "", minPlayers)
    \/ Select("balanced", "", balanced)
    \/ \E id \in SelectIds : Select("identifier", id, identifier(id))
    \/ \E region \in Regions : Select("closestNode", region, closestNode(region))
    \/ \E spotify \in BOOLEAN :
          Select("extension", IF spotify THEN "SpotifyBase" ELSE "Playable",
                 extension(spotify))

SpecSelect == InitSelect /\ [][NextSelect]_vars

SelectionOps == {"minPlayers", "balanced", "identifier", "closestNode", "extension"}

\* C10: every selection algorithm fails with NoNodesConnected when the registry
\* is empty, and never fails with NoNodesConnected when it is not.
C10_NoNodesConnectedIffEmpty ==
    ret.op \in SelectionOps => (ret.error = "NoNodesConnected" <=> nodes = <<>>)

\* closestNode has failed with NoNodesConnected on the empty registry.
C10_Witness ==
    /\ ret.op = "closestNode"
    /\ nodes = <<>>
    /\ ret.error = "NoNodesConnected"

\* the place of a registered node in the iteration order of the registry
PositionOf(o) == CHOOSE i \in DOMAIN nodes : nodes[i].node = o

SessionsOf(o) == Len(node[o].players)

\* C11: on a registry that is not empty minPlayers returns a registered node
\* with the fewest attached sessions, and of the nodes with that many sessions
\* the one that comes first in the registry.
C11_MinPlayersFirstMinimal ==
    (ret.op = "minPlayers" /\ nodes # <<>>) =>
        /\ ret.error = ""
        /\ Registered(ret.value)
        /\ \A i \in DOMAIN nodes :
              /\ SessionsOf(nodes[i].node) >= SessionsOf(ret.value)
              /\ SessionsOf(nodes[i].node) = SessionsOf(ret.value)
                    => i >= PositionOf(ret.value)

\* minPlayers has chosen the first of two nodes that both have one session.
C11_Witness ==
    /\ ret.op = "minPlayers"
    /\ Len(nodes) = 2
    /\ SessionsOf(nodes[1].node) = 1
    /\ SessionsOf(nodes[2].node) = 1
    /\ ret.value = nodes[1].node

\* the penalty of a node as the claim puts it: 0 before the first stats frame
CostOf(o) == IF node[o].stats.present THEN node[o].stats.playingPlayers ELSE 0

\* C12: on a registry that is not empty balanced returns a registered node whose
\* penalty is the lowest of all registered nodes, a node without stats counting
\* as penalty 0.
C12_BalancedLowestPenalty ==
    (ret.op = "balanced" /\ nodes # <<>>) =>
        /\ ret.error = ""
        /\ Registered(ret.value)
        /\ \A i \in DOMAIN nodes : CostOf(ret.value) <= CostOf(nodes[i].node)

\* balanced has chosen the second node, which has no stats yet, over the first,
\* whose stats report a playing player.
C12_Witness ==
    /\ ret.op = "balanced"
    /\ Len(nodes) = 2
    /\ node[nodes[1].node].stats.present
    /\ node[nodes[1].node].stats.playingPlayers = 1
    /\ ~node[nodes[2].node].stats.present
    /\ ret.value = nodes[2].node

\* whether a node qualifies for the closestNode or extension call that returned
Qualifies(o) ==
    IF ret.op = "closestNode" THEN node[o].region = ret.arg
    ELSE ret.arg = "SpotifyBase" => node[o].spotifyClient

\* C13: on a registry that is not empty closestNode and extension fail with
\* InvalidNodeSearch when no node qualifies, and otherwise return the first
\* qualifying node in registry order.
C13_NoMatchIsInvalidNodeSearch ==
    (ret.op \in {"closestNode", "extension"} /\ nodes # <<>>) =>
        IF \A i \in DOMAIN nodes : ~Qualifies(nodes[i].node)
        THEN ret.error = "InvalidNodeSearch"
        ELSE /\ ret.error = ""
             /\ Registered(ret.value)
             /\ Qualifies(ret.value)
             /\ \A i \in DOMAIN nodes :
                   Qualifies(nodes[i].node) => i >= PositionOf(ret.value)

(***************************************************************************)
(* The listener task of a Websocket and the processListener tasks          *)
(***************************************************************************)
\* The node whose websocket SpecWs follows, and the guild of its one player.
WsNode == 1

Frame(op, type, guild) ==
    [id |-> 0, op |-> op, type |-> type, guild |-> guild, reason |-> "", track |-> 0,
     time |-> 1000, position |-> 1000, playingPlayers |-> 1]

\* A TrackEndEvent frame with its reason
TrackEnd(guild, reason) == [Frame("event", "TrackEndEvent", guild) EXCEPT !.reason = reason]

\* A frame whose data is 1011
Fatal == Frame("fatal", "", 0)

\* The server writes a frame to the open socket.
ServerSend(o, f) ==
    /\ sent < MaxFrames
    /\ ws[o].connection = "open"
    /\ inbox' = Append(inbox, [f EXCEPT !.id = sent + 1])
    /\ sent' = sent + 1
    /\ ret' = NoCall
    /\ UNCHANGED <<nodes, node, ws, creating, player, tasks, dispatched, outbox, now, http, backoff>>

\* The socket is closed by the peer: from now on receive() answers CLOSED and
\* what was not received is lost.
SocketClosed(o) ==
    /\ ws[o].connection = "open"
    /\ ws' = [ws EXCEPT ![o].connection = "closed"]
    /\ inbox' = <<>>
    /\ ret' = NoCall
    /\ UNCHANGED <<nodes, node, creating, player, sent, tasks, dispatched, outbox, now, http, backoff>>

\* ExponentialBackoff() of createListener: maxRetries
maxRetries == 20

\* ExponentialBackoff.delay: the retry counter after the call
RetriesAfterDelay(retries) == IF retries + 1 > maxRetries THEN 1 ELSE retries + 1

\* createListener, msg.type is CLOSED: one backoff delay is computed and slept.
\* sleeps counts the sleeps since the socket was last open, up to "more than one".
SleepingListener(w) ==
    [w EXCEPT !.listener = "sleeping", !.retries = RetriesAfterDelay(w.retries),
              !.sleeps = IF w.sleeps = 0 THEN 1 ELSE 2]

ListenerReceiveClosed(o) ==
    /\ ws[o].listener = "receiving"
    /\ ws[o].connection = "closed"
    /\ ws' = [ws EXCEPT ![o] = SleepingListener(ws[o])]
    /\ ret' = NoCall
    /\ UNCHANGED <<nodes, node, creating, player>>
    /\ UNCHANGED wsVars

\* createListener after asyncio.sleep(retry): the loop goes back to
\* `await self.connection.receive()` on the same connection.
AwokenListener(w) == [w EXCEPT !.listener = "receiving"]

ListenerWake(o) ==
    /\ ws[o].listener = "sleeping"
    /\ ws' = [ws EXCEPT ![o] = AwokenListener(ws[o])]
    /\ ret' = NoCall
    /\ UNCHANGED <<nodes, node, creating, player>>
    /\ UNCHANGED wsVars

\* asyncio.create_task(self.processListener(msg.json()))
\* player and track are the task's local variables: the Player that getPlayer
\* found and the track handed to Player.play (0 while unset)
TasksAfterSpawn(f) == Append(tasks, [frame |-> f, pc |-> "new", player |-> 0, track |-> 0])

FatalListener_Continues(w) == w

\* createListener, data 1011: the listener task ends
FatalListener(w) == [w EXCEPT !.listener = "terminated"]

\* createListener, any other message. For data 1011 the listener cancels itself
\* and msg.json() of the integer raises, so no task is made and the listener
\* ends; otherwise a processListener task is made for the frame.
ListenerReceive(o) ==
    /\ ws[o].listener = "receiving"
    /\ ws[o].connection = "open"
    /\ inbox # <<>>
    /\ inbox' = Tail(inbox)
    /\ IF Head(inbox).op = "fatal"
       THEN /\ ws' = [ws EXCEPT ![o] = FatalListener(ws[o])]
            /\ tasks' = tasks
       ELSE /\ tasks' = TasksAfterSpawn(Head(inbox))
            /\ ws' = ws
    /\ ret' = NoCall
    /\ UNCHANGED <<nodes, node, creating, player, sent, dispatched, outbox, now, http, backoff>>

PlayersOfGuild_Any(o, guild) == node[o].players

\* Websocket.getPlayer: the players of the node with that guild id
PlayersOfGuild(o, guild) == SelectSeq(node[o].players, LAMBDA p : p = guild)

FrameEvent(f, o) == [event |-> f.type, frame |-> f.id, node |-> o]

DispatchedAfter_Twice(f, o) == dispatched \o <<FrameEvent(f, o), FrameEvent(f, o)>>

\* Websocket.dispatchEvent
DispatchedAfter(f, o) == Append(dispatched, FrameEvent(f, o))

\* Player._updateState
\* The frame carries milliseconds and the player keeps seconds; the frames of
\* this model carry whole seconds, for which the division is exact.
UpdatedPlayer(pl, f) ==
    [pl EXCEPT !.lastUpdateTime = f.time \div 1000, !.lastPosition = f.position \div 1000]

\* the asyncio loop starts tasks in the order they were created
IsNext(i) == tasks[i].pc = "new" /\ \A j \in 1..(i - 1) : tasks[j].pc # "new"

\* processListener up to its first suspension.
\*   playerUpdate: the player is updated, or the IndexError of getPlayer swallowed;
\*   stats: the node's stats are replaced;
\*   event: WebSocketClosedEvent is dispatched at once; any other event needs the
\*          player (IndexError ends the task) and then awaits Node.buildTrack.
TaskStart(o, i) ==
    /\ i \in 1..Len(tasks)
    /\ IsNext(i)
    /\ LET f == tasks[i].frame
           found == PlayersOfGuild(o, f.guild)
       IN  /\ player' = IF f.op = "playerUpdate" /\ found # <<>>
                        THEN [player EXCEPT ![found[1]] = UpdatedPlayer(player[found[1]], f)]
                        ELSE player
           /\ node' = IF f.op = "stats"
                      THEN [node EXCEPT ![o].stats =
                              [present |-> TRUE, playingPlayers |-> f.playingPlayers]]
                      ELSE node
           /\ dispatched' = IF f.op = "event" /\ f.type = "WebSocketClosedEvent"
                            THEN DispatchedAfter(f, o) ELSE dispatched
           /\ tasks' = [tasks EXCEPT
                          ![i].pc =
                             IF f.op = "event" /\ f.type # "WebSocketClosedEvent"
                             THEN IF found = <<>> THEN "failed" ELSE "building"
                             ELSE "done",
                          ![i].player =
                             IF f.op = "event" /\ f.type # "WebSocketClosedEvent"
                                /\ found # <<>>
                             THEN found[1] ELSE 0]
    /\ ret' = NoCall
    /\ UNCHANGED <<nodes, ws, creating, inbox, sent, outbox, now, http, backoff>>

\* getEventPayload after `await self.node.buildTrack(...)`, for the events other
\* than TrackEndEvent: a status other than 200 raises BuildTrackError out of the
\* task; otherwise the event is built and dispatched.
TaskBuilt(o, i, ok) ==
    /\ i \in 1..Len(tasks)
    /\ tasks[i].pc = "building"
    /\ tasks[i].frame.type # "TrackEndEvent"
    /\ tasks' = [tasks EXCEPT ![i].pc = IF ok THEN "done" ELSE "failed"]
    /\ dispatched' = IF ok THEN DispatchedAfter(tasks[i].frame, o) ELSE dispatched
    /\ ret' = NoCall
    /\ UNCHANGED <<nodes, node, ws, creating, player, inbox, sent, outbox, now, http, backoff>>

(***************************************************************************)
(* SpecWs: the websocket of one node                                       *)
(***************************************************************************)
\* NodePool.createNode(identifier="a") has returned and a player of guild 1 has
\* connected to the node; the websocket's connect task has not run yet.
InitWs ==
    /\ nodes = <<[identifier |-> "a", node |-> WsNode]>>
    /\ node = [o \in NodeObjs |->
                 IF o = WsNode
                 THEN [NodeAfterConnect(NewNode("a", "eu", FALSE)) EXCEPT !.players = <<1>>]
                 ELSE NoNode]
    /\ ws = [o \in NodeObjs |-> IF o = WsNode THEN NewWebsocket ELSE NoWebsocket]
    /\ creating = {}
    /\ ret = NoCall
    /\ inbox = <<>>
    /\ sent = 0
    /\ outbox = <<>>
    /\ now = 0
    /\ http = NoRequest
    /\ backoff = NewBackoff(1, 20)
    /\ tasks = <<>>
    /\ dispatched = <<>>
    /\ player = [p \in Players |->
                   IF p = 1 THEN [NewPlayer(WsNode) EXCEPT !.connected = TRUE] ELSE NoPlayer]

\* What the server sends in SpecWs; guild 2 has no player.
WsFrames ==
    {Fatal, Frame("playerUpdate", "", 1), Frame("playerUpdate", "", 2), Frame("stats", "", 0),
     Frame("event", "TrackStartEvent", 1), Frame("event", "TrackStartEvent", 2),
     Frame("event", "WebSocketClosedEvent", 1)}

\* the steps the event loop takes on its own
LoopStep ==
    \/ WsConnectOk(WsNode)
    \/ \E how \in {"authFailed", "failed"} : WsConnectFail(WsNode, how)
    \/ ListenerReceive(WsNode)
    \/ ListenerReceiveClosed(WsNode)
    \/ ListenerWake(WsNode)
    \/ \E i \in 1..MaxFrames : TaskStart(WsNode, i)

NextWs ==
    \/ LoopStep
    \/ \E i \in 1..MaxFrames, ok \in BOOLEAN : TaskBuilt(WsNode, i, ok)
    \/ \E f \in WsFrames : ServerSend(WsNode, f)
    \/ SocketClosed(WsNode)
    \/ NodeConnect(WsNode)
    \/ NodeDisconnect(WsNode)
    \/ WebsocketDisconnect(WsNode)

\* A task that can run is run, a sleep ends and ws_connect comes back; the REST
\* endpoint, the server and the application owe nothing.
SpecWs == InitWs /\ [][NextWs]_vars /\ WF_vars(LoopStep)

(***************************************************************************)
(* Claims about the websocket (checked under SpecWs)                       *)
(***************************************************************************)
\* C1: once the listener has seen the socket closed it sleeps one backoff delay
\* and then starts a reconnect attempt, and the websocket never has more than
\* one listener task.
C1_SleepOnceThenReconnect ==
    [][/\ (ws[WsNode].listener = "sleeping" /\ ws'[WsNode].listener = "receiving")
            => /\ ws'[WsNode].sleeps = 1
               /\ ws'[WsNode].attempts = ws[WsNode].attempts + 1
       /\ ws'[WsNode].listeners <= 1]_vars

\* the listener is alive and has seen, or will see, its socket closed
ClosedByPeer ==
    /\ ws[WsNode].connection = "closed"
    /\ ws[WsNode].listener \in {"receiving", "sleeping"}

\* C2: after the socket was closed by the peer, the websocket of a node that
\* stays registered is eventually connected again.
C2_EventuallyReconnects ==
    [](ClosedByPeer => <>(Connected(WsNode) \/ ~Registered(WsNode)))

\* the frames of the events dispatched so far, in dispatch order
DispatchedFrames == SelectSeq(dispatched, LAMBDA e : e.frame # 0)

TimesDispatched(id) ==
    Cardinality({k \in 1..Len(dispatched) : dispatched[k].frame = id})

C5_FailedConnectIsRetried ==
    [](ws[WsNode].connectTask = "failed" => <>(ws[WsNode].attempts > 1))

OpenDispatched(o) ==
    \E k \in 1..Len(dispatched) : dispatched[k] = WebsocketOpen(o)

\* C6: after a connect attempt failed with a 401 the websocket has no
\* connection and no listener task, no websocket_open event was dispatched, and
\* the websocket stays that way: no further connect attempt is made.
C6_AuthFailureAbandoned ==
    [][/\ ws'[WsNode].connectTask = "authFailed"
            => /\ ws'[WsNode].listener = "None"
               /\ ws'[WsNode].listeners = 0
               /\ ws'[WsNode].connection = "None"
               /\ ws'[WsNode].attempts = 1
               /\ ~OpenDispatched(WsNode)'
       /\ ws[WsNode].connectTask = "authFailed" => ws'[WsNode] = ws[WsNode]]_vars

\* The connect attempt has failed with a 401 and the application has since
\* tried to disconnect the node.
C6_Witness ==
    /\ ws[WsNode].connectTask = "authFailed"
    /\ ret.op = "Node.disconnect"
    /\ ws[WsNode].listener = "None"

\* C14: when Node.disconnect has completed, the node's identifier is not in the
\* registry and no session attached to the node is connected, whatever state the
\* websocket was in.
C14_DisconnectRemovesNode ==
    ret.op = "Node.disconnect" =>
        /\ ret.arg \notin Identifiers
        /\ \A p \in Range(node[ret.value].players) : ~player[p].connected

\* C15: a call of Websocket.disconnect, the first or a later one, raises no
\* error and leaves the listener cancelled and the socket closed.
C15_DisconnectIdempotent ==
    ret.op = "Websocket.disconnect" =>
        /\ ret.error = ""
        /\ ws[ret.value].connection = "closed"
        /\ ws[ret.value].listener \in {"cancelled", "terminated"}

(***************************************************************************)
(* Python lists                                                            *)
(***************************************************************************)
\* whether list[i] exists (a negative index counts from the end)
HasIndex(list, i) == -Len(list) <= i /\ i < Len(list)

\* the place of list[i] in the sequence
Place(list, i) == IF i >= 0 THEN i + 1 ELSE Len(list) + i + 1

\* list[i]
Item(list, i) == list[Place(list, i)]

\* the list after list.pop(i)
Popped(list, i) ==
    SubSeq(list, 1, Place(list, i) - 1) \o SubSeq(list, Place(list, i) + 1, Len(list))

Inserted_Appended(list, i, x) == Append(list, x)

\* the list after list.insert(i, x): the index is clamped to the list
Inserted(list, i, x) ==
    LET at == IF i < 0 THEN (IF Len(list) + i < 0 THEN 0 ELSE Len(list) + i)
              ELSE (IF i > Len(list) THEN Len(list) ELSE i)
    IN  SubSeq(list, 1, at) \o <<x>> \o SubSeq(list, at + 1, Len(list))

\* what random.shuffle can make of the list
Shuffles(list) ==
    {[k \in 1..Len(list) |-> list[f[k]]] :
        f \in {g \in [1..Len(list) -> 1..Len(list)] :
                 \A a, b \in 1..Len(list) : a # b => g[a] # g[b]}}

(***************************************************************************)
(* Queue                                                                   *)
(***************************************************************************)
Tracks == {1, 2}

\* Queue.isEmpty
isEmpty(pl) == pl.currentTrack = Len(pl.tracks) - 1

QueueVars == <<nodes, node, ws, creating>>

isRepeating_Never(pl) == FALSE

isRepeating_Inverted(pl) == ~pl.repeat

\* Player.isRepeating
isRepeating(pl) == pl.repeat

\* Queue.next and Queue.previous move the cursor before they index the list,
\* so an IndexError leaves the cursor moved.
Stepped(pl, by) == [pl EXCEPT !.currentTrack = pl.currentTrack + by]

StepResult(op, pl) ==
    IF HasIndex(pl.tracks, pl.currentTrack)
    THEN Ret(op, "", "", Item(pl.tracks, pl.currentTrack))
    ELSE Ret(op, "", "IndexError", 0)

\* The cursor is followed up to MaxQueue + MaxUnder.
QueueNext(p) ==
    /\ player[p].made
    /\ player[p].currentTrack < MaxQueue + MaxUnder
    /\ IF isEmpty(player[p])
       THEN ret' = Ret("Queue.next", "", "QueueEmpty", 0) /\ player' = player
       ELSE IF isRepeating(player[p])
       THEN ret' = Ret("Queue.next", "", "RepeatException", 0) /\ player' = player
       ELSE /\ player' = [player EXCEPT ![p] = Stepped(player[p], 1)]
            /\ ret' = StepResult("Queue.next", player'[p])
    /\ UNCHANGED QueueVars
    /\ UNCHANGED wsVars

\* The cursor is followed down to -1 - MaxUnder.
QueuePrevious(p) ==
    /\ player[p].made
    /\ player[p].currentTrack > -1 - MaxUnder
    /\ IF player[p].currentTrack = 0
       THEN ret' = Ret("Queue.previous", "", "QueueEmpty", 0) /\ player' = player
       ELSE IF isRepeating(player[p])
       THEN ret' = Ret("Queue.previous", "", "RepeatException", 0) /\ player' = player
       ELSE /\ player' = [player EXCEPT ![p] = Stepped(player[p], -1)]
            /\ ret' = StepResult("Queue.previous", player'[p])
    /\ UNCHANGED QueueVars
    /\ UNCHANGED wsVars

\* Queue.addIterable, and Queue.add for an iterable of one track
WithAdded(pl, iterable) == [pl EXCEPT !.tracks = pl.tracks \o iterable]

QueueAdd(p, t) ==
    /\ player[p].made
    /\ Len(player[p].tracks) < MaxQueue
    /\ player' = [player EXCEPT ![p] = WithAdded(player[p], <<t>>)]
    /\ ret' = Ret("Queue.add", "", "", t)
    /\ UNCHANGED QueueVars
    /\ UNCHANGED wsVars

QueueAddIterable(p, iterable) ==
    /\ player[p].made
    /\ Len(player[p].tracks) + Len(iterable) <= MaxQueue
    /\ player' = [player EXCEPT ![p] = WithAdded(player[p], iterable)]
    /\ ret' = Ret("Queue.addIterable", "", "", 0)
    /\ UNCHANGED QueueVars
    /\ UNCHANGED wsVars

\* Queue.reset
ResetQueue(pl) == [pl EXCEPT !.tracks = <<>>, !.currentTrack = 0]

QueueReset(p) ==
    /\ player[p].made
    /\ player' = [player EXCEPT ![p] = ResetQueue(player[p])]
    /\ ret' = Ret("Queue.reset", "", "", 0)
    /\ UNCHANGED QueueVars
    /\ UNCHANGED wsVars

\* Queue.shuffle: pop(currentTrack) raises IndexError when the cursor is outside
\* the list; otherwise the rest is shuffled and the track inserted at the cursor.
QueueShuffle(p) ==
    /\ player[p].made
    /\ IF ~HasIndex(player[p].tracks, player[p].currentTrack)
       THEN ret' = Ret("Queue.shuffle", "", "IndexError", 0) /\ player' = player
       ELSE LET pl == player[p]
                tempTrack == Item(pl.tracks, pl.currentTrack)
            IN  /\ \E rest \in Shuffles(Popped(pl.tracks, pl.currentTrack)) :
                      player' = [player EXCEPT ![p].tracks =
                                    Inserted(rest, pl.currentTrack, tempTrack)]
                /\ ret' = Ret("Queue.shuffle", "", "", 0)
    /\ UNCHANGED QueueVars
    /\ UNCHANGED wsVars

(***************************************************************************)
(* Player.repeat, Player.stopRepeat and Player.play                        *)
(***************************************************************************)
PlayerRepeat(p) ==
    /\ player[p].made
    /\ IF isRepeating(player[p])
       THEN ret' = Ret("Player.repeat", "", "RepeatException", 0) /\ player' = player
       ELSE ret' = Ret("Player.repeat", "", "", 0)
            /\ player' = [player EXCEPT ![p].repeat = TRUE]
    /\ UNCHANGED QueueVars
    /\ UNCHANGED wsVars

PlayerStopRepeat(p) ==
    /\ player[p].made
    /\ IF ~isRepeating(player[p])
       THEN ret' = Ret("Player.stopRepeat", "", "RepeatException", 0) /\ player' = player
       ELSE ret' = Ret("Player.stopRepeat", "", "", 0)
            /\ player' = [player EXCEPT ![p].repeat = FALSE]
    /\ UNCHANGED QueueVars
    /\ UNCHANGED wsVars

isPlaying_Never(pl) == FALSE

\* Player.isPlaying
isPlaying(pl) == pl.connected /\ pl.track # 0

\* What Player.play is given: a Track, a MultiTrack or a PartialResource.
TrackLists == {<<1>>, <<2, 1>>}

\* A PartialResource holds a query and no track: 0 stands for the resource itself.
Resources ==
    {[kind |-> "Track", tracks |-> <<t>>] : t \in Tracks}
    \cup {[kind |-> "MultiTrack", tracks |-> list] : list \in TrackLists}
    \cup {[kind |-> "PartialResource", tracks |-> <<0>>]}

IsPartial_Never(resource) == FALSE

\* isinstance(track, PartialResource)
IsPartial(resource) == resource.kind = "PartialResource"

\* the arguments of a Player.play call, as ret shows them
PlayArg(resource, replace) ==
    IF replace THEN resource.kind ELSE resource.kind \o ",replace=False"

\* the payloads of the play and pause commands
PlayCommand(p, track) == [op |-> "play", player |-> p, track |-> track, pause |-> ""]

PauseCommand(p, pause) == [op |-> "pause", player |-> p, track |-> 0, pause |-> pause]

\* What Node.getTracks makes of the server's answer, by loadType.
Resolutions ==
    {[loadType |-> "LOAD_FAILED", tracks |-> <<>>],
     [loadType |-> "NO_MATCHES", tracks |-> <<>>]}
    \cup {[loadType |-> "TRACK_LOADED", tracks |-> <<t>>] : t \in Tracks}
    \cup {[loadType |-> l, tracks |-> list] :
            l \in {"SEARCH_RESULT", "PLAYLIST_LOADED"}, list \in TrackLists}

PlayVolumes == {100, 1001}

\* Node._send: send_json on a connection that is None or closed raises
SendRaises(o) == ws[o].connection # "open"

\* Player._multitrackCheck followed by lines 332-344: the first track of a
\* MultiTrack is taken and the rest pushed onto the queue; the track and the
\* volume are recorded; the play command is handed to Node._send.
Sending(pl, tracks, volume) ==
    [pl EXCEPT !.tracks = pl.tracks \o Tail(tracks),
               !.track = Head(tracks), !.volume = volume,
               !.call = [pc |-> "sending", track |-> Head(tracks), volume |-> volume]]

\* Player.play up to its first suspension.
PlayCall(p, resource, volume, replace) ==
    /\ player[p].made
    /\ player[p].call.pc = "idle"
    /\ Len(player[p].tracks) + Len(resource.tracks) <= MaxQueue
    /\ IF isPlaying(player[p]) /\ ~replace
       THEN ret' = Ret("Player.play", PlayArg(resource, replace), "", 0) /\ player' = player
       ELSE IF IsPartial(resource)
       THEN /\ player' = [player EXCEPT ![p].call =
                             [pc |-> "resolving", track |-> 0, volume |-> volume]]
            /\ ret' = Suspended("Player.play", PlayArg(resource, replace))
       ELSE /\ player' = [player EXCEPT ![p] = Sending(player[p], resource.tracks, volume)]
            /\ ret' = Suspended("Player.play", PlayArg(resource, replace))
    /\ UNCHANGED QueueVars
    /\ UNCHANGED wsVars

\* `if track is None: return`
NoMatches(resolution) == resolution.loadType = "NO_MATCHES"

\* Player.play after `await self.node.getTracks(...)`: LOAD_FAILED raises,
\* NO_MATCHES returns None, a list gives its first track, a MultiTrack goes
\* through _multitrackCheck.
PlayResolved(p, resolution) ==
    /\ player[p].call.pc = "resolving"
    /\ Len(player[p].tracks) + Len(resolution.tracks) <= MaxQueue
    /\ IF resolution.loadType = "LOAD_FAILED"
       THEN /\ ret' = Ret("Player.play", resolution.loadType, "LoadTrackError", 0)
            /\ player' = [player EXCEPT ![p].call = Idle]
       ELSE IF NoMatches(resolution)
       THEN /\ ret' = Ret("Player.play", resolution.loadType, "", 0)
            /\ player' = [player EXCEPT ![p].call = Idle]
       ELSE /\ player' = [player EXCEPT ![p] =
                 Sending(player[p],
                         IF resolution.loadType = "SEARCH_RESULT"
                         THEN <<Head(resolution.tracks)>> ELSE resolution.tracks,
                         player[p].call.volume)]
            /\ ret' = Suspended("Player.play", resolution.loadType)
    /\ UNCHANGED QueueVars
    /\ UNCHANGED wsVars

\* Player.play, lines 346-349: the first track played is put at the head of
\* the queue and the cursor moved onto it.
Seeded(pl, track) ==
    IF pl.currentTrack = -1
    THEN [pl EXCEPT !.tracks = <<track>> \o pl.tracks, !.currentTrack = pl.currentTrack + 1]
    ELSE pl

\* Player.play after `await self.node._send(newTrack)`. The model follows
\* MaxCommands commands.
PlaySent(p) ==
    /\ player[p].call.pc = "sending"
    /\ IF SendRaises(player[p].node)
       THEN /\ ret' = Ret("Player.play", "", "SendError", 0)
            /\ player' = [player EXCEPT ![p].call = Idle]
            /\ outbox' = outbox
       ELSE /\ Len(outbox) < MaxCommands
            /\ ret' = Ret("Player.play", "", "", player[p].call.track)
            /\ player' = [player EXCEPT ![p] =
                             [Seeded(player[p], player[p].call.track) EXCEPT !.call = Idle]]
            /\ outbox' = Append(outbox, PlayCommand(p, player[p].call.track))
    /\ UNCHANGED QueueVars
    /\ UNCHANGED <<inbox, sent, tasks, dispatched, now, http, backoff>>

(***************************************************************************)
(* Player.pause and Player.resume                                          *)
(***************************************************************************)
\* str(pause)
Str(pause) == IF pause THEN "True" ELSE "False"

\* Player._togglePause up to `await self.node._send(pause)`: the name pause is
\* rebound to the payload, and that dict is what self._paused is given.
PauseCall(p, pause) ==
    /\ player[p].made
    /\ player[p].call.pc = "idle"
    /\ player' = [player EXCEPT
                    ![p].paused = PyDict(Str(pause)),
                    ![p].call = [pc |-> IF pause THEN "pausing" ELSE "resuming",
                                 track |-> 0, volume |-> 0]]
    /\ ret' = Suspended(IF pause THEN "Player.pause" ELSE "Player.resume", "")
    /\ UNCHANGED QueueVars
    /\ UNCHANGED wsVars

\* Player.pause and Player.resume after the send.
PauseSent(p) ==
    /\ player[p].call.pc \in {"pausing", "resuming"}
    /\ LET op == IF player[p].call.pc = "pausing" THEN "Player.pause" ELSE "Player.resume"
       IN  IF SendRaises(player[p].node)
           THEN /\ ret' = Ret(op, "", "SendError", 0)
                /\ outbox' = outbox
           ELSE /\ Len(outbox) < MaxCommands
                /\ ret' = Ret(op, "", "", 0)
                /\ outbox' = Append(outbox,
                                    PauseCommand(p, Str(player[p].call.pc = "pausing")))
    /\ player' = [player EXCEPT ![p].call = Idle]
    /\ UNCHANGED QueueVars
    /\ UNCHANGED <<inbox, sent, tasks, dispatched, now, http, backoff>>

(***************************************************************************)
(* Node.getTracks and Playable.search                                      *)
(***************************************************************************)
\* the tracks the server knows
ServerTracks == {1, 2, 3}

ServerLists == UNION {[1..n -> ServerTracks] : n \in 1..MaxResults}

\* The answers of the server to a loadtracks request: a status other than 200,
\* or a load result with its tracks. A search result and a playlist hold at
\* least one track.
Answers ==
    {[status |-> 500, loadType |-> "", tracks |-> <<>>],
     [status |-> 200, loadType |-> "LOAD_FAILED", tracks |-> <<>>],
     [status |-> 200, loadType |-> "NO_MATCHES", tracks |-> <<>>]}
    \cup {[status |-> 200, loadType |-> "TRACK_LOADED", tracks |-> <<t>>] : t \in ServerTracks}
    \cup {[status |-> 200, loadType |-> l, tracks |-> list] :
            l \in {"SEARCH_RESULT", "PLAYLIST_LOADED"}, list \in ServerLists}

\* Node.getTracks after `await self._getData(...)`
getTracks(answer) ==
    IF answer.status # 200 THEN [error |-> "LavalinkException", found |-> NotFound]
    ELSE IF answer.loadType = "LOAD_FAILED"
    THEN [error |-> "LoadTrackError", found |-> NotFound]
    ELSE IF answer.loadType = "NO_MATCHES" THEN [error |-> "", found |-> NotFound]
    ELSE IF answer.loadType = "TRACK_LOADED"
    THEN [error |-> "", found |-> Found("Track", <<answer.tracks[1]>>)]
    ELSE IF answer.loadType = "SEARCH_RESULT"
    THEN [error |-> "", found |-> Found("List", answer.tracks)]
    ELSE [error |-> "", found |-> Found("MultiTrack", answer.tracks)]

Returned_Last(found, returnFirst) ==
    IF found.kind = "List" /\ returnFirst
    THEN Found("Track", <<found.tracks[Len(found.tracks)]>>)
    ELSE found

\* `if isinstance(tracks, list) and returnFirst: return tracks[0]`
Returned(found, returnFirst) ==
    IF found.kind = "List" /\ returnFirst
    THEN Found("Track", <<found.tracks[1]>>)
    ELSE found

\* Playable.search with a node and a query that is one string, up to the await
\* of the request in Node.getTracks; with partial=True a PartialResource is
\* returned and nothing requested.
SearchCall(o, returnFirst, partial) ==
    /\ node[o].made
    /\ http.pc # "loadtracks"
    /\ IF partial
       THEN /\ http' = [NoRequest EXCEPT !.returnFirst = returnFirst,
                                         !.found = Found("PartialResource", <<>>)]
            /\ ret' = Ret("Playable.search", "partial", "", 0)
       ELSE /\ http' = [NoRequest EXCEPT !.pc = "loadtracks", !.returnFirst = returnFirst]
            /\ ret' = Suspended("Playable.search", "")
    /\ UNCHANGED <<nodes, node, ws, creating, player, inbox, sent, tasks, dispatched, outbox,
                   now, backoff>>

\* The server answers and the search runs to its end.
SearchAnswered(answer) ==
    /\ http.pc = "loadtracks"
    /\ LET got == getTracks(answer)
       IN  /\ http' = [http EXCEPT
                         !.pc = "answered",
                         !.answer = answer,
                         !.found = IF got.error = ""
                                   THEN Returned(got.found, http.returnFirst)
                                   ELSE NotFound]
           /\ ret' = Ret("Playable.search", answer.loadType, got.error, 0)
    /\ UNCHANGED <<nodes, node, ws, creating, player, inbox, sent, tasks, dispatched, outbox,
                   now, backoff>>

(***************************************************************************)
(* ExponentialBackoff                                                      *)
(***************************************************************************)
Counted_Unbounded(b) == [b EXCEPT !.retries = b.retries + 1]

\* delay(): the counter is incremented and set to 1 when it exceeds maxRetries
Counted(b) ==
    [b EXCEPT !.retries = IF b.retries + 1 > b.maxRetries THEN 1 ELSE b.retries + 1]

\* random.uniform(low, high) = low + (high - low) * random(), for the value
\* k/Resolution of random(); in units of 1/Resolution
Uniform(low, high, k) == low * Resolution + (high - low) * k

\* ExponentialBackoff.delay
Delay ==
    /\ \E k \in 0..(Resolution - 1) :
          LET b == Counted(backoff)
          IN  backoff' = [b EXCEPT !.delay = Uniform(0, b.base * 2^b.retries, k)]
    /\ ret' = Ret("ExponentialBackoff.delay", "", "", 0)
    /\ UNCHANGED <<nodes, node, ws, creating, player, inbox, sent, tasks, dispatched, outbox,
                   now, http>>

(***************************************************************************)
(* Player.position                                                         *)
(***************************************************************************)
\* Track.length, as the server reported it for the track
TrackLength(track) == 2 + track

Min(a, b) == IF a < b THEN a ELSE b

\* Player.position at the present time. -1 stands for None in lastPosition and
\* lastUpdateTime: min(None, length) and `now - None` raise TypeError.
Position(pl) ==
    IF ~isPlaying(pl) THEN [error |-> "", value |-> 0]
    ELSE IF Truthy(pl.paused)
    THEN IF pl.lastPosition = -1 THEN [error |-> "TypeError", value |-> 0]
         ELSE [error |-> "", value |-> Min(pl.lastPosition, TrackLength(pl.track))]
    ELSE IF pl.lastUpdateTime = -1 THEN [error |-> "TypeError", value |-> 0]
         ELSE [error |-> "",
               value |-> Min(pl.lastPosition + (now - pl.lastUpdateTime),
                             TrackLength(pl.track))]

\* The application reads player.position.
PlayerPosition(p) ==
    /\ player[p].made
    /\ ret' = Ret("Player.position", "", Position(player[p]).error, Position(player[p]).value)
    /\ UNCHANGED <<nodes, node, ws, creating, player>>
    /\ UNCHANGED wsVars

\* A second passes.
Tick ==
    /\ now < MaxTime
    /\ now' = now + 1
    /\ ret' = NoCall
    /\ UNCHANGED <<nodes, node, ws, creating, player, inbox, sent, tasks, dispatched, outbox,
                   http, backoff>>

\* The playerUpdate frame the server sends at the present time for a position
StateUpdate(guild, position) ==
    [Frame("playerUpdate", "", guild) EXCEPT !.time = 1000 * now, !.position = 1000 * position]

(***************************************************************************)
(* Player.setVolume                                                        *)
(***************************************************************************)
\* a command call suspended at its `await self.node._send(...)`: op is the
\* method called and command the payload it hands over
Commanding(op, command) == [pc |-> "command", op |-> op, command |-> command]

\* max(min(volume, 1000), 0)
Clamped(volume) ==
    LET least == IF volume < 1000 THEN volume ELSE 1000
    IN  IF least > 0 THEN least ELSE 0

VolumeCommand(p, volume) == [op |-> "volume", player |-> p, volume |-> volume]

\* Player.setVolume up to its send: the volume is clamped and stored, and the
\* payload carries the stored volume.
SetVolumeCall(p, volume) ==
    /\ player[p].made
    /\ player[p].call.pc = "idle"
    /\ player' = [player EXCEPT
                    ![p].volume = Clamped(volume),
                    ![p].call = Commanding("Player.setVolume",
                                           VolumeCommand(p, Clamped(volume)))]
    /\ ret' = Suspended("Player.setVolume", "")
    /\ UNCHANGED QueueVars
    /\ UNCHANGED wsVars

\* A command call after its send; the model follows MaxCommands commands.
CommandSent(p) ==
    /\ player[p].call.pc = "command"
    /\ IF SendRaises(player[p].node)
       THEN /\ ret' = Ret(player[p].call.op, "", "SendError", 0)
            /\ outbox' = outbox
       ELSE /\ Len(outbox) < MaxCommands
            /\ ret' = Ret(player[p].call.op, "", "", 0)
            /\ outbox' = Append(outbox, player[p].call.command)
    /\ player' = [player EXCEPT ![p].call = Idle]
    /\ UNCHANGED QueueVars
    /\ UNCHANGED <<inbox, sent, tasks, dispatched, now, http, backoff>>

(***************************************************************************)
(* Player.addFilter, Player.removeFilter, Player.resetFilter               *)
(***************************************************************************)
FilterApplied_Never(pl, name) == FALSE

\* `name in self.filters.keys()`
FilterApplied(pl, name) == pl.filters[name] # Absent

FiltersCommand_Empty(p, pl) ==
    [op |-> "filters", player |-> p,
     volume |-> [numerator |-> pl.volume, denominator |-> 100],
     filters |-> {}]

\* The payload of _updateFilters: self.volume/100 as a fraction, and one entry
\* for every applied filter.
FiltersCommand(p, pl) ==
    [op |-> "filters", player |-> p,
     volume |-> [numerator |-> pl.volume, denominator |-> 100],
     filters |-> {[name |-> name, payload |-> pl.filters[name]] :
                     name \in {n \in FilterNames : pl.filters[n] # Absent}}]

\* A filter call that passed its check: the dict is changed and
\* _updateFilters runs up to its send.
FiltersUpdated(p, op, name, filter) ==
    LET pl == [player[p] EXCEPT !.filters[name] = filter]
    IN  /\ player' = [player EXCEPT
                        ![p] = [pl EXCEPT !.call = Commanding(op, FiltersCommand(p, pl))]]
        /\ ret' = Suspended(op, name)

\* A filter call that raised: nothing but the outcome changes.
FilterRaised(op, name, error) ==
    /\ ret' = Ret(op, name, error, 0)
    /\ player' = player

\* the filter objects the application builds
Filters == {[name |-> name, payload |-> "Custom"] : name \in FilterNames}

AddFilter(p, filter) ==
    /\ player[p].made
    /\ player[p].call.pc = "idle"
    /\ IF FilterApplied(player[p], filter.name)
       THEN FilterRaised("Player.addFilter", filter.name, "FilterAlreadyExists")
       ELSE FiltersUpdated(p, "Player.addFilter", filter.name, filter.payload)
    /\ UNCHANGED QueueVars
    /\ UNCHANGED wsVars

RemoveFilter(p, name) ==
    /\ player[p].made
    /\ player[p].call.pc = "idle"
    /\ IF ~FilterApplied(player[p], name)
       THEN FilterRaised("Player.removeFilter", name, "FilterNotApplied")
       ELSE FiltersUpdated(p, "Player.removeFilter", name, Absent)
    /\ UNCHANGED QueueVars
    /\ UNCHANGED wsVars

ResetFilter(p, name) ==
    /\ player[p].made
    /\ player[p].call.pc = "idle"
    /\ IF ~FilterApplied(player[p], name)
       THEN FilterRaised("Player.resetFilter", name, "FilterNotApplied")
       ELSE FiltersUpdated(p, "Player.resetFilter", name,
                           IF name = "equalizer" THEN "Flat" ELSE "Default")
    /\ UNCHANGED QueueVars
    /\ UNCHANGED wsVars

(***************************************************************************)
(* Player.destroy                                                          *)
(***************************************************************************)
Removed_Kept(list, x) == list

\* list.remove(x) for a list that holds x: the first occurrence goes
Removed(list, x) ==
    LET i == CHOOSE k \in 1..Len(list) : list[k] = x /\ \A j \in 1..(k - 1) : list[j] # x
    IN  SubSeq(list, 1, i - 1) \o SubSeq(list, i + 1, Len(list))

DestroyCommand(p) == [op |-> "destroy", player |-> p]

\* Player.destroy up to the await of change_voice_state in Player.disconnect
DestroyCall(p) ==
    /\ player[p].made
    /\ player[p].call.pc = "idle"
    /\ player' = [player EXCEPT ![p].call = [Idle EXCEPT !.pc = "disconnecting"]]
    /\ ret' = Suspended("Player.destroy", "")
    /\ UNCHANGED QueueVars
    /\ UNCHANGED wsVars

\* Player.destroy from there up to its send: the player is marked disconnected
\* and removed from the players of its node, where list.remove raises
\* ValueError for a player the list does not hold.
DestroyDisconnected(p) ==
    LET o == player[p].node
    IN  /\ player[p].call.pc = "disconnecting"
        /\ IF p \in Range(node[o].players)
           THEN /\ node' = [node EXCEPT ![o].players = Removed(node[o].players, p)]
                /\ player' = [player EXCEPT
                                ![p].connected = FALSE,
                                ![p].call = Commanding("Player.destroy", DestroyCommand(p))]
                /\ ret' = Suspended("Player.destroy", "")
           ELSE /\ node' = node
                /\ player' = [player EXCEPT ![p].connected = FALSE, ![p].call = Idle]
                /\ ret' = Ret("Player.destroy", "", "ValueError", 0)
        /\ UNCHANGED <<nodes, ws, creating>>
        /\ UNCHANGED wsVars

(***************************************************************************)
(* TrackEndEvent                                                           *)
(***************************************************************************)
EndedTrack_Kept(pl, f) == pl.track

\* `elif data["reason"] == "FINISHED": player._track = None`
EndedTrack(pl, f) == IF f.reason = "FINISHED" THEN 0 ELSE pl.track

\* getEventPayload after `await self.node.buildTrack(...)`, for a TrackEndEvent.
\* While the player repeats, player.play(player.track) is called with the
\* defaults volume=100 and replace=True: without a current track `track.id`
\* raises AttributeError out of the task, otherwise the call runs up to its
\* send. While it does not repeat, the track is cleared if the reason is
\* FINISHED and the event is dispatched.
TaskBuiltTrackEnd(o, i, ok) ==
    /\ i \in 1..Len(tasks)
    /\ tasks[i].pc = "building"
    /\ tasks[i].frame.type = "TrackEndEvent"
    /\ LET p == tasks[i].player
           f == tasks[i].frame
       IN  IF ~ok
           THEN /\ tasks' = [tasks EXCEPT ![i].pc = "failed"]
                /\ UNCHANGED <<player, dispatched>>
           ELSE IF player[p].repeat
           THEN IF player[p].track = 0
                THEN /\ tasks' = [tasks EXCEPT ![i].pc = "failed"]
                     /\ UNCHANGED <<player, dispatched>>
                ELSE /\ tasks' = [tasks EXCEPT ![i].pc = "sending",
                                               ![i].track = player[p].track]
                     /\ player' = [player EXCEPT ![p] =
                                      [Sending(player[p], <<player[p].track>>, 100)
                                         EXCEPT !.call = player[p].call]]
                     /\ dispatched' = dispatched
           ELSE /\ tasks' = [tasks EXCEPT ![i].pc = "done"]
                /\ player' = [player EXCEPT ![p].track = EndedTrack(player[p], f)]
                /\ dispatched' = DispatchedAfter(f, o)
    /\ ret' = NoCall
    /\ UNCHANGED <<nodes, node, ws, creating, inbox, sent, outbox, now, http, backoff>>

\* The task after the send of its Player.play call: the queue is seeded as in
\* any play call, then the TrackEndEvent is dispatched.
TaskSent(o, i) ==
    /\ i \in 1..Len(tasks)
    /\ tasks[i].pc = "sending"
    /\ LET p == tasks[i].player
       IN  IF SendRaises(o)
           THEN /\ tasks' = [tasks EXCEPT ![i].pc = "failed"]
                /\ UNCHANGED <<player, dispatched, outbox>>
           ELSE /\ Len(outbox) < MaxCommands
                /\ tasks' = [tasks EXCEPT ![i].pc = "done"]
                /\ player' = [player EXCEPT ![p] = Seeded(player[p], tasks[i].track)]
                /\ outbox' = Append(outbox, PlayCommand(p, tasks[i].track))
                /\ dispatched' = DispatchedAfter(tasks[i].frame, o)
    /\ ret' = NoCall
    /\ UNCHANGED <<nodes, node, ws, creating, inbox, sent, now, http, backoff>>

\* the play commands the socket was handed for the player, in order
PlaysOf(p) == SelectSeq(outbox, LAMBDA c : c.op = "play" /\ c.player = p)

\* The server sends a TrackEndEvent that names the track that ended: with
\* reason FINISHED the track of the last play command it was sent for the
\* player, with reason REPLACED the track of the play command before the last.
ServerTrackEnd(o, p, reason) ==
    LET plays == PlaysOf(p)
        ended == IF reason = "REPLACED" THEN Len(plays) - 1 ELSE Len(plays)
    IN  /\ ended >= 1
        /\ ServerSend(o, [TrackEnd(p, reason) EXCEPT !.track = plays[ended].track])

(***************************************************************************)
(* SpecPool: the node pool, its websockets and the selection of a node     *)
(***************************************************************************)
NextPool ==
    \/ Next
    \/ \E o \in NodeObjs : SocketClosed(o)
    \/ Select("minPlayers", "", minPlayers)
    \/ Select("balanced", "", balanced)

SpecPool == Init /\ [][NextPool]_vars

(***************************************************************************)
(* SpecQueue: the queue of one player                                      *)
(***************************************************************************)
QPlayer == 1

\* The node is registered with its websocket open and the player has connected.
InitQueue ==
    /\ nodes = <<[identifier |-> "a", node |-> WsNode]>>
    /\ node = [o \in NodeObjs |->
                 IF o = WsNode
                 THEN [NodeAfterConnect(NewNode("a", "eu", FALSE)) EXCEPT !.players = <<QPlayer>>]
                 ELSE NoNode]
    /\ ws = [o \in NodeObjs |->
               IF o = WsNode THEN ConnectedWebsocket(NewWebsocket) ELSE NoWebsocket]
    /\ creating = {}
    /\ ret = NoCall
    /\ inbox = <<>>
    /\ sent = 0
    /\ outbox = <<>>
    /\ now = 0
    /\ http = NoRequest
    /\ backoff = NewBackoff(1, 20)
    /\ tasks = <<>>
    /\ dispatched = <<WebsocketOpen(WsNode)>>
    /\ player = [p \in Players |->
                   IF p = QPlayer THEN [NewPlayer(WsNode) EXCEPT !.connected = TRUE]
                   ELSE NoPlayer]

NextQueue ==
    \/ QueueNext(QPlayer)
    \/ QueuePrevious(QPlayer)
    \/ \E t \in Tracks : QueueAdd(QPlayer, t)
    \/ \E list \in TrackLists : QueueAddIterable(QPlayer, list)
    \/ QueueReset(QPlayer)
    \/ QueueShuffle(QPlayer)
    \/ PlayerRepeat(QPlayer)
    \/ PlayerStopRepeat(QPlayer)
    \/ \E resource \in Resources, volume \in PlayVolumes, replace \in BOOLEAN :
          PlayCall(QPlayer, resource, volume, replace)
    \/ \E resolution \in Resolutions : PlayResolved(QPlayer, resolution)
    \/ PlaySent(QPlayer)
    \/ SocketClosed(WsNode)

SpecQueue == InitQueue /\ [][NextQueue]_vars

\* C4: the queue cursor always satisfies -1 <= currentTrack <= len(tracks) - 1.
C4_CursorInRange ==
    /\ -1 <= player[QPlayer].currentTrack
    /\ player[QPlayer].currentTrack <= Len(player[QPlayer].tracks) - 1

(***************************************************************************)
(* SpecPlayer: one player, its commands and the events of its node         *)
(***************************************************************************)
\* What the server sends in SpecPlayer
PlayerFrames == {TrackEnd(QPlayer, "FINISHED"), TrackEnd(QPlayer, "STOPPED")}

NextPlayer ==
    \/ \E t \in Tracks :
          PlayCall(QPlayer, [kind |-> "Track", tracks |-> <<t>>], 100, TRUE)
    \/ PlaySent(QPlayer)
    \/ PlayerRepeat(QPlayer)
    \/ PlayerStopRepeat(QPlayer)
    \/ \E pause \in BOOLEAN : PauseCall(QPlayer, pause)
    \/ PauseSent(QPlayer)
    \/ \E f \in PlayerFrames : ServerSend(WsNode, f)
    \/ ListenerReceive(WsNode)
    \/ \E i \in 1..MaxFrames : TaskStart(WsNode, i)
    \/ \E i \in 1..MaxFrames, ok \in BOOLEAN : TaskBuiltTrackEnd(WsNode, i, ok)
    \/ \E i \in 1..MaxFrames : TaskSent(WsNode, i)
    \/ SocketClosed(WsNode)

SpecPlayer == InitQueue /\ [][NextPlayer]_vars

(***************************************************************************)
(* SpecTrackEnd: one player and the track ends of the tracks it plays      *)
(***************************************************************************)
\* the reasons of a TrackEndEvent followed
Reasons == {"FINISHED", "REPLACED"}

NextTrackEnd ==
    \/ \E t \in Tracks :
          PlayCall(QPlayer, [kind |-> "Track", tracks |-> <<t>>], 100, TRUE)
    \/ PlaySent(QPlayer)
    \/ PlayerRepeat(QPlayer)
    \/ PlayerStopRepeat(QPlayer)
    \/ \E reason \in Reasons : ServerTrackEnd(WsNode, QPlayer, reason)
    \/ ListenerReceive(WsNode)
    \/ \E i \in 1..MaxFrames : TaskStart(WsNode, i)
    \/ \E i \in 1..MaxFrames, ok \in BOOLEAN : TaskBuiltTrackEnd(WsNode, i, ok)
    \/ \E i \in 1..MaxFrames : TaskSent(WsNode, i)

SpecTrackEnd == InitQueue /\ [][NextTrackEnd]_vars

(***************************************************************************)
(* SpecSessions: one player connecting to and leaving its node             *)
(***************************************************************************)
\* the longest players list followed
MaxListed == 2

\* Player.connect up to `await self.guild.change_voice_state(channel=...)`
ConnectCall(p) ==
    /\ player[p].made
    /\ player[p].call.pc = "idle"
    /\ Len(node[player[p].node].players) < MaxListed
    /\ player' = [player EXCEPT ![p].call = [Idle EXCEPT !.pc = "connecting"]]
    /\ ret' = Suspended("Player.connect", "")
    /\ UNCHANGED QueueVars
    /\ UNCHANGED wsVars

\* `self._connected = True`
Listed(pl) == [pl EXCEPT !.connected = TRUE, !.call = Idle]

\* Player.connect from there to its end: the player is appended to the players
\* of its node and marked connected.
ConnectDone(p) ==
    LET o == player[p].node
    IN  /\ player[p].call.pc = "connecting"
        /\ node' = [node EXCEPT ![o].players = Append(node[o].players, p)]
        /\ player' = [player EXCEPT ![p] = Listed(player[p])]
        /\ ret' = Ret("Player.connect", "", "", 0)
        /\ UNCHANGED <<nodes, ws, creating>>
        /\ UNCHANGED wsVars

\* Player.disconnect up to `await self.guild.change_voice_state(channel=None)`
DisconnectCall(p) ==
    /\ player[p].made
    /\ player[p].call.pc = "idle"
    /\ player' = [player EXCEPT ![p].call = [Idle EXCEPT !.pc = "leaving"]]
    /\ ret' = Suspended("Player.disconnect", "")
    /\ UNCHANGED QueueVars
    /\ UNCHANGED wsVars

\* Player.disconnect from there to its end: `self._connected = False` and
\* cleanup(), which leaves the players of the node alone.
DisconnectDone(p) ==
    /\ player[p].call.pc = "leaving"
    /\ player' = [player EXCEPT ![p].connected = FALSE, ![p].call = Idle]
    /\ ret' = Ret("Player.disconnect", "", "", 0)
    /\ UNCHANGED QueueVars
    /\ UNCHANGED wsVars

\* The node is registered with its websocket open; the player has been made
\* for it and has not connected.
InitSessions ==
    /\ nodes = <<[identifier |-> "a", node |-> WsNode]>>
    /\ node = [o \in NodeObjs |->
                 IF o = WsNode THEN NodeAfterConnect(NewNode("a", "eu", FALSE)) ELSE NoNode]
    /\ ws = [o \in NodeObjs |->
               IF o = WsNode THEN ConnectedWebsocket(NewWebsocket) ELSE NoWebsocket]
    /\ creating = {}
    /\ ret = NoCall
    /\ inbox = <<>>
    /\ sent = 0
    /\ outbox = <<>>
    /\ now = 0
    /\ http = NoRequest
    /\ backoff = NewBackoff(1, 20)
    /\ tasks = <<>>
    /\ dispatched = <<WebsocketOpen(WsNode)>>
    /\ player = [p \in Players |-> IF p = QPlayer THEN NewPlayer(WsNode) ELSE NoPlayer]

NextSessions ==
    \/ ConnectCall(QPlayer)
    \/ ConnectDone(QPlayer)
    \/ DisconnectCall(QPlayer)
    \/ DisconnectDone(QPlayer)
    \/ DestroyCall(QPlayer)
    \/ DestroyDisconnected(QPlayer)
    \/ CommandSent(QPlayer)
    \/ NodeDisconnect(WsNode)
    \/ SocketClosed(WsNode)

SpecSessions == InitSessions /\ [][NextSessions]_vars

(***************************************************************************)
(* SpecCommands: the commands of one player                                *)
(***************************************************************************)
\* volume arguments: below the range, inside it and above it
Volumes == {-1, 100, 1001}

NextCommands ==
    \/ \E volume \in Volumes :
          PlayCall(QPlayer, [kind |-> "Track", tracks |-> <<1>>], volume, TRUE)
    \/ PlaySent(QPlayer)
    \/ \E volume \in Volumes : SetVolumeCall(QPlayer, volume)
    \/ CommandSent(QPlayer)
    \/ \E filter \in Filters : AddFilter(QPlayer, filter)
    \/ \E name \in FilterNames : RemoveFilter(QPlayer, name)
    \/ \E name \in FilterNames : ResetFilter(QPlayer, name)
    \/ DestroyCall(QPlayer)
    \/ DestroyDisconnected(QPlayer)
    \/ SocketClosed(WsNode)

SpecCommands == InitQueue /\ [][NextCommands]_vars

(***************************************************************************)
(* SpecPosition: the position of one player's track                        *)
(***************************************************************************)
\* positions the server reports, in seconds
Positions == {1, 2}

NextPosition ==
    \/ PlayCall(QPlayer, [kind |-> "Track", tracks |-> <<1>>], 100, TRUE)
    \/ PlaySent(QPlayer)
    \/ \E pause \in BOOLEAN : PauseCall(QPlayer, pause)
    \/ PauseSent(QPlayer)
    \/ \E position \in Positions : ServerSend(WsNode, StateUpdate(QPlayer, position))
    \/ ListenerReceive(WsNode)
    \/ \E i \in 1..MaxFrames : TaskStart(WsNode, i)
    \/ Tick
    \/ PlayerPosition(QPlayer)

SpecPosition == InitQueue /\ [][NextPosition]_vars

(***************************************************************************)
(* SpecSearch: the searches made through one node                          *)
(***************************************************************************)
NextSearch ==
    \/ \E returnFirst, partial \in BOOLEAN : SearchCall(WsNode, returnFirst, partial)
    \/ \E answer \in Answers : SearchAnswered(answer)

SpecSearch == InitQueue /\ [][NextSearch]_vars

(***************************************************************************)
(* SpecBackoff: one ExponentialBackoff and its delay calls                 *)
(***************************************************************************)
InitBackoff ==
    /\ nodes = <<>>
    /\ node = [o \in NodeObjs |-> NoNode]
    /\ ws = [o \in NodeObjs |-> NoWebsocket]
    /\ creating = {}
    /\ ret = NoCall
    /\ inbox = <<>>
    /\ sent = 0
    /\ outbox = <<>>
    /\ now = 0
    /\ http = NoRequest
    /\ backoff \in {NewBackoff(base, max) : base \in 1..MaxBase, max \in 1..MaxMaxRetries}
    /\ tasks = <<>>
    /\ dispatched = <<>>
    /\ player = [p \in Players |-> NoPlayer]

NextBackoff == Delay

SpecBackoff == InitBackoff /\ [][NextBackoff]_vars

\* the arguments of the play calls made with replace=False
NoReplaceArgs == {PlayArg(resource, FALSE) : resource \in Resources}

\* C16: a Player.play call with replace=False on a session that is connected and
\* has a current track returns at once: nothing is sent and the current track,
\* the volume, the queue and its cursor stay as they were.
C16_NoReplaceWhilePlayingIsNoOp ==
    [][(/\ ret'.op = "Player.play"
        /\ ret'.arg \in NoReplaceArgs
        /\ player[QPlayer].call.pc = "idle"
        /\ player[QPlayer].connected
        /\ player[QPlayer].track # 0)
          => /\ ret'.error = ""
             /\ outbox' = outbox
             /\ player' = player]_vars

\* Player.play(replace=False) has returned on a session that is playing a track
\* for which a play command was sent.
C16_Witness ==
    /\ ret.op = "Player.play"
    /\ ret.arg \in NoReplaceArgs
    /\ ret.error = ""
    /\ player[QPlayer].call.pc = "idle"
    /\ player[QPlayer].connected
    /\ player[QPlayer].track # 0
    /\ outbox # <<>>

\* C17: Player.play with a MultiTrack t1..tn appends t2..tn to the queue and
\* sends a play command for t1; and the first play command of a session comes
\* with the played track inserted at index 0 of the queue and the cursor at 0,
\* so that tracks[currentTrack] is the track just played.
C17_MultiTrackPlayedAndSeeded ==
    [][/\ (/\ ret'.op = "Player.play"
            /\ ret'.arg = "MultiTrack"
            /\ player[QPlayer].call.pc = "idle")
              => \E list \in TrackLists :
                    /\ player'[QPlayer].call.pc = "sending"
                    /\ player'[QPlayer].call.track = Head(list)
                    /\ player'[QPlayer].tracks = player[QPlayer].tracks \o Tail(list)
       /\ (/\ ret'.op = "Player.play"
            /\ ret'.error = ""
            /\ player[QPlayer].call.pc = "sending")
              => /\ outbox' = Append(outbox, PlayCommand(QPlayer, player[QPlayer].call.track))
                 /\ outbox = <<>> =>
                       /\ player'[QPlayer].tracks =
                             <<player[QPlayer].call.track>> \o player[QPlayer].tracks
                       /\ player'[QPlayer].currentTrack = 0]_vars

\* C18: every play command handed to the socket carries a Track, never the
\* PartialResource; and a Player.play call whose resolution reports no match
\* returns without sending anything and leaves the current track as it was.
C18_ResolvedBeforeSent ==
    [][/\ \A k \in 1..Len(outbox') :
             outbox'[k].op = "play" => outbox'[k].track \in Tracks
       /\ (/\ ret'.op = "Player.play"
            /\ ret'.arg = "NO_MATCHES"
            /\ player[QPlayer].call.pc = "resolving")
              => /\ ret'.error = ""
                 /\ player'[QPlayer].call = Idle
                 /\ outbox' = outbox
                 /\ player'[QPlayer].track = player[QPlayer].track]_vars

\* A Player.play call with a PartialResource has returned on no match, on a
\* session whose current track was resolved and sent before.
C18_Witness ==
    /\ ret.op = "Player.play"
    /\ ret.arg = "NO_MATCHES"
    /\ ret.error = ""
    /\ player[QPlayer].track # 0
    /\ outbox # <<>>

\* the i-th task handles a TrackEndEvent with reason FINISHED
EndsFinished(i) ==
    /\ i \in 1..Len(tasks)
    /\ tasks[i].frame.type = "TrackEndEvent"
    /\ tasks[i].frame.reason = "FINISHED"

C20_PausedFlagFollowsCall ==
    /\ (ret.op = "Player.pause" /\ ret.error = "") => Truthy(player[QPlayer].paused)
    /\ (ret.op = "Player.resume" /\ ret.error = "") => ~Truthy(player[QPlayer].paused)

\* C21: the volume of the session is always in 0..1000.
C21_VolumeInRange ==
    /\ 0 <= player[QPlayer].volume
    /\ player[QPlayer].volume <= 1000

\* C22: Player.position is 0 without a current track; for a paused session it
\* is min(lastPosition, track.length); for a playing session that is not paused
\* it is min(lastPosition + (now - lastUpdateTime), track.length). A session is
\* paused when its last pause or resume call was a pause.
C22_PositionExtrapolated ==
    ret.op = "Player.position" =>
        LET pl == player[QPlayer]
        IN  /\ ret.error = ""
            /\ ret.value =
                  IF pl.track = 0 THEN 0
                  ELSE IF pl.paused.pause = "True"
                  THEN Min(pl.lastPosition, TrackLength(pl.track))
                  ELSE Min(pl.lastPosition + (now - pl.lastUpdateTime),
                           TrackLength(pl.track))

\* C23: addFilter for a name that is applied fails with FilterAlreadyExists, and
\* removeFilter and resetFilter for a name that is not applied fail with
\* FilterNotApplied; the failing call leaves the player, its filter map
\* included, as it was and hands no command to the socket.
C23_FailingFilterCallChangesNothing ==
    [][\A name \in FilterNames :
          LET applied == player[QPlayer].filters[name] # Absent
              failing == \/ ret'.op = "Player.addFilter" /\ applied
                         \/ ret'.op = "Player.removeFilter" /\ ~applied
                         \/ ret'.op = "Player.resetFilter" /\ ~applied
          IN  (ret'.arg = name /\ failing) =>
                  /\ ret'.error = IF ret'.op = "Player.addFilter"
                                  THEN "FilterAlreadyExists" ELSE "FilterNotApplied"
                  /\ player' = player
                  /\ outbox' = outbox]_vars

\* An addFilter call has failed for a filter that was applied and sent before,
\* while another filter is not applied.
C23_Witness ==
    /\ ret.op = "Player.addFilter" /\ ret.error = "FilterAlreadyExists"
    /\ \E name \in FilterNames : player[QPlayer].filters[name] = Absent
    /\ Len(outbox) > 0 /\ outbox[Len(outbox)].op = "filters"

\* C24: Player.repeat fails with RepeatException when the player already
\* repeats and sets the flag otherwise; Player.stopRepeat fails with
\* RepeatException when the player does not repeat and clears the flag
\* otherwise; a failing call leaves the flag as it was.
C24_RepeatToggles ==
    [][LET before == player[QPlayer].repeat
           after == player'[QPlayer].repeat
       IN  /\ ret'.op = "Player.repeat" =>
                 IF before THEN ret'.error = "RepeatException" /\ after = before
                 ELSE ret'.error = "" /\ after = TRUE
           /\ ret'.op = "Player.stopRepeat" =>
                 IF ~before THEN ret'.error = "RepeatException" /\ after = before
                 ELSE ret'.error = "" /\ after = FALSE]_vars

\* Player.repeat has failed on a player that repeats.
C24_Witness ==
    /\ ret.op = "Player.repeat"
    /\ ret.error = "RepeatException"
    /\ player[QPlayer].repeat

\* C25: while the repeat flag of the player is set, every call of Queue.next and
\* of Queue.previous fails and leaves the cursor and the tracks as they were.
C25_RepeatBlocksQueue ==
    [][(player[QPlayer].repeat /\ ret'.op \in {"Queue.next", "Queue.previous"}) =>
          /\ ret'.error \in {"RepeatException", "QueueEmpty"}
          /\ player'[QPlayer].currentTrack = player[QPlayer].currentTrack
          /\ player'[QPlayer].tracks = player[QPlayer].tracks]_vars

\* Queue.next has failed on a repeating player that has a next track.
C25_Witness ==
    /\ ret.op = "Queue.next"
    /\ ret.error = "RepeatException"
    /\ player[QPlayer].repeat
    /\ player[QPlayer].currentTrack >= 0
    /\ player[QPlayer].currentTrack < Len(player[QPlayer].tracks) - 1

\* C26: Player.destroy marks the player disconnected, removes it from the
\* players of its node and then sends the destroy command of its guild: when
\* the command is handed to the socket the player is already disconnected and
\* out of the list, and a destroy call that completes has sent the command and
\* leaves the player out of the list.
C26_DestroyRemovesThenSends ==
    [][LET listed == QPlayer \in Range(node[WsNode].players)
           sending == outbox' = Append(outbox, DestroyCommand(QPlayer))
       IN  /\ sending => ~listed /\ ~player[QPlayer].connected
           /\ (ret'.op = "Player.destroy" /\ ret'.error = "") =>
                 /\ sending
                 /\ QPlayer \notin Range(node'[WsNode].players)
                 /\ ~player'[QPlayer].connected]_vars

\* A destroy call has completed and its command is the last one sent.
C26_Witness ==
    /\ ret.op = "Player.destroy"
    /\ ret.error = ""
    /\ Len(outbox) > 0
    /\ outbox[Len(outbox)] = DestroyCommand(QPlayer)
    /\ QPlayer \notin Range(node[WsNode].players)

\* C27: Queue.next fails with QueueEmpty when the cursor is at the last index
\* and otherwise, on a player that does not repeat, advances the cursor by one
\* and returns the track of the list at the new cursor; Queue.previous fails
\* with QueueEmpty when the cursor is 0 and otherwise, on a player that does not
\* repeat, moves the cursor back by one and returns the track at the new cursor.
C27_NextAndPreviousStep ==
    [][LET pl == player[QPlayer]
           after == player'[QPlayer]
           moved(by) ==
               /\ ret'.error = ""
               /\ after.currentTrack = pl.currentTrack + by
               /\ after.currentTrack \in 0..(Len(pl.tracks) - 1)
               /\ ret'.value = pl.tracks[after.currentTrack + 1]
               /\ after.tracks = pl.tracks
           failed ==
               /\ ret'.error = "QueueEmpty"
               /\ after.currentTrack = pl.currentTrack
               /\ after.tracks = pl.tracks
       IN  /\ ret'.op = "Queue.next" =>
                 IF pl.currentTrack = Len(pl.tracks) - 1 THEN failed
                 ELSE pl.repeat \/ moved(1)
           /\ ret'.op = "Queue.previous" =>
                 IF pl.currentTrack = 0 THEN failed
                 ELSE pl.repeat \/ moved(-1)]_vars

\* how often the track occurs in the list
Occurrences(list, t) == Cardinality({k \in 1..Len(list) : list[k] = t})

C29_LoadResultMapped ==
    http.pc = "answered" =>
        LET answer == http.answer
        IN  /\ (answer.status = 200 /\ answer.loadType = "LOAD_FAILED") =>
                  ret.error = "LoadTrackError"
            /\ (answer.status = 200 /\ answer.loadType = "NO_MATCHES") =>
                  ret.error = "" /\ http.found = NotFound
            /\ (answer.status = 200 /\ answer.loadType = "SEARCH_RESULT"
                   /\ http.returnFirst) =>
                  ret.error = "" /\ http.found = Found("Track", <<answer.tracks[1]>>)

\* A search called with returnFirst has returned from a search result of
\* several tracks whose first and last differ.
C29_Witness ==
    /\ http.pc = "answered"
    /\ http.returnFirst
    /\ http.answer.loadType = "SEARCH_RESULT"
    /\ Len(http.answer.tracks) > 1
    /\ http.answer.tracks[1] # http.answer.tracks[Len(http.answer.tracks)]
    /\ http.found.kind = "Track"

C31_FatalTerminatesListener ==
    [][LET received == /\ inbox # <<>>
                       /\ inbox' = Tail(inbox)
                       /\ ws'[WsNode].connection = "open"
       IN  /\ (received /\ Head(inbox).op = "fatal") =>
                 ws'[WsNode].listener = "terminated" /\ tasks' = tasks
           /\ ws[WsNode].listener = "terminated" =>
                 /\ ws'[WsNode].listener = "terminated"
                 /\ ~received
                 /\ Len(tasks') = Len(tasks)
                 /\ ws'[WsNode].retries = ws[WsNode].retries
                 /\ ws'[WsNode].sleeps = ws[WsNode].sleeps
                 /\ ws'[WsNode].attempts = ws[WsNode].attempts
                 /\ ws'[WsNode].listeners = ws[WsNode].listeners]_vars

\* The listener is terminated while a later frame of the server waits on the
\* open socket.
C31_Witness ==
    /\ ws[WsNode].listener = "terminated"
    /\ ws[WsNode].connection = "open"
    /\ inbox # <<>>

\* C32: the task of a playerUpdate frame whose guild has no player on the node
\* ends without an error, changes no player and dispatches nothing, and the
\* listener is left as it was, receiving the frames that follow.
C32_UnmatchedUpdateDropped ==
    [][\A i \in 1..Len(tasks) :
          (/\ tasks[i].pc = "new"
           /\ Len(tasks') = Len(tasks)
           /\ tasks'[i].pc # "new"
           /\ tasks[i].frame.op = "playerUpdate"
           /\ \A k \in 1..Len(node[WsNode].players) :
                 node[WsNode].players[k] # tasks[i].frame.guild) =>
              /\ tasks'[i].pc = "done"
              /\ player' = player
              /\ dispatched' = dispatched
              /\ ws' = ws
              /\ inbox' = inbox]_vars

\* The task of an unmatched playerUpdate has ended and the listener has
\* received the frame after it.
C32_Witness ==
    \E i \in 1..Len(tasks) :
        /\ tasks[i].frame.op = "playerUpdate"
        /\ tasks[i].frame.guild = 2
        /\ tasks[i].pc = "done"
        /\ i < Len(tasks)
        /\ ws[WsNode].listener = "receiving"

\* C33: an addFilter, removeFilter or resetFilter call that succeeds hands one
\* command to the socket, a filters command for the guild of the player that
\* holds every filter of the filter map as it is after the change, and the
\* volume of the player divided by 100.
C33_FiltersSentWhole ==
    [][(/\ ret'.op \in {"Player.addFilter", "Player.removeFilter", "Player.resetFilter"}
        /\ ret'.error = "") =>
          LET pl == player'[QPlayer]
          IN  /\ Len(outbox') = Len(outbox) + 1
              /\ SubSeq(outbox', 1, Len(outbox)) = outbox
              /\ outbox'[Len(outbox')] =
                    [op |-> "filters", player |-> QPlayer,
                     volume |-> [numerator |-> pl.volume, denominator |-> 100],
                     filters |-> {[name |-> name, payload |-> pl.filters[name]] :
                                    name \in {n \in FilterNames : pl.filters[n] # Absent}}]]_vars

\* An addFilter call has succeeded, and the command it sent holds two filters.
C33_Witness ==
    /\ ret.op = "Player.addFilter"
    /\ ret.error = ""
    /\ Len(outbox) > 0
    /\ outbox[Len(outbox)].op = "filters"
    /\ Cardinality(outbox[Len(outbox)].filters) = 2

\* C34: when Queue.reset is followed by Queue.add of one track, the queue then
\* holds that one track with the cursor at 0 and Queue.isEmpty is false.
C34_ResetThenAddNotEmpty ==
    [][(ret.op = "Queue.reset" /\ ret'.op = "Queue.add") =>
          /\ Len(player'[QPlayer].tracks) = 1
          /\ player'[QPlayer].currentTrack = 0
          /\ ~isEmpty(player'[QPlayer])]_vars

\* C35: the task of a TrackEndEvent with reason FINISHED does not clear the
\* current track of the player when that track is another one than the track
\* that ended, set by a Player.play call made before the task came to its end.
C35_FinishedKeepsNewerTrack ==
    [][\A i \in 1..Len(tasks) :
          (/\ Len(tasks') = Len(tasks)
           /\ tasks[i].pc = "building"
           /\ tasks'[i].pc # "building"
           /\ tasks[i].frame.type = "TrackEndEvent"
           /\ tasks[i].frame.reason = "FINISHED"
           /\ player[QPlayer].track \notin {0, tasks[i].frame.track}) =>
              player'[QPlayer].track = player[QPlayer].track]_vars

\* C36: the task of a TrackEndEvent whose reason is not FINISHED hands no play
\* command to the socket and leaves the current track of the player as it was,
\* whether the player repeats or not.
C36_OtherReasonsChangeNothing ==
    [][\A i \in 1..Len(tasks) :
          (/\ Len(tasks') = Len(tasks)
           /\ tasks'[i].pc # tasks[i].pc
           /\ tasks[i].frame.type = "TrackEndEvent"
           /\ tasks[i].frame.reason # "FINISHED") =>
              /\ outbox' = outbox
              /\ player'[QPlayer].track = player[QPlayer].track]_vars

\* C37: NodePool.minPlayers and NodePool.balanced never return a node whose
\* websocket failed to connect or whose socket has closed.
C37_SelectedNodeIsConnected ==
    (ret.op \in {"minPlayers", "balanced"} /\ ret.error = "") =>
        /\ ws[ret.value].connectTask \notin {"authFailed", "failed"}
        /\ ws[ret.value].connection # "closed"

\* C38: a Player.play call whose send of the play command raises, the socket of
\* the node being closed when the call comes to its send, leaves the current
\* track, the volume and the queue of the player as they were.
C38_FailedPlayChangesNothing ==
    [][(/\ SendRaises(WsNode)
        /\ ret'.op = "Player.play"
        /\ player[QPlayer].call.pc # "sending"
        /\ player'[QPlayer].call.pc = "sending") =>
          /\ player'[QPlayer].track = player[QPlayer].track
          /\ player'[QPlayer].volume = player[QPlayer].volume
          /\ player'[QPlayer].tracks = player[QPlayer].tracks
          /\ player'[QPlayer].currentTrack = player[QPlayer].currentTrack]_vars


\* C39: a NodePool.createNode call that raises, for an identifier already taken
\* or for an extension initialisation that fails, leaves no node of its own
\* making registered under the requested identifier.
C39_FailedCreateRegistersNothing ==
    (ret.op = "createNode" /\ ret.error # "") =>
        ~ \E i \in 1..Len(nodes) : /\ nodes[i].identifier = ret.arg
                                   /\ nodes[i].node = ret.value


\* C40: every session in the players list of a node is there once and is
\* connected.
C40_ListedOnceAndConnected ==
    \A o \in NodeObjs : \A p \in Range(node[o].players) :
        /\ Occurrences(node[o].players, p) = 1
        /\ player[p].connected

====
